---- MODULE Spec2Model ----
(***************************************************************************)
(* Model of the UKMM resource diff/merge engine.                           *)
(*                                                                         *)
(* Resources are values; diff and merge are pure functions over them.      *)
(* The state machine is the life of one resource path: a base resource is  *)
(* parsed, every mod brings a modified copy that is diffed against the     *)
(* base, and the diffs are folded onto the accumulator in load order.      *)
(* A second state machine (SpecShard) is the game-data pack's split into   *)
(* shards on write and its defragmentation on read.                        *)
(***************************************************************************)
EXTENDS Integers, Sequences, FiniteSets, TLC

VARIABLES
    base,       \* the parsed, unmodified resource of this path
    modified,   \* the modified copy of the mod being unpacked (NoRes: none yet)
    pending,    \* the diff of that mod, not merged yet (NoRes: none)
    acc,        \* the accumulator of the load-order fold
    applied,    \* the diffs merged so far, in load order
    pc,         \* "run" | "panicked" (an assert or panic!() aborted the process)
    pack,       \* the GameDataPack being written (NoRes outside SpecShard)
    shards,     \* per field, the Vec<GameData> that divide returned
    sarc,       \* the SarcWriter that into_sarc_writer built
    reread,     \* what from_sarc_writer made of that SarcWriter
    step,       \* "idle" | "loaded" | "written" | "read" | "panicked"
    resName,    \* the path handed to ResourceData::from_binary
    resData,    \* the bytes handed to it
    resOut,     \* what it returned (NoRes: not called yet)
    arcMap,     \* the SarcMap of an archive
    arcTable,   \* the resource table: canonical key -> ResourceData
    arcFirst,   \* the archive's serialization before the merge step
    arcChanged, \* the canonical key whose resource the merge step changed
    arcSecond,  \* the archive's serialization after the merge step
    maniStart,  \* a manifest as it was before any extend
    mani,       \* the same manifest now
    maniLog,    \* the manifests it was extended with, in order
    maniKeys,   \* what resources() yielded for it (NoRes: not called)
    poolMods,   \* per resource path, the diffs of the mods in load order
    poolTable,  \* the merged table: resource path -> resource
    poolNext,   \* per path, the number of diffs that workers have taken
    poolWork,   \* per worker, the merge step it is in (NoRes: idle)
    poolLog,    \* the merge steps in the order in which they finished
    stDoc,     \* the document handed to Static::try_from
    stVal,     \* the Static made of it, as it is now (NoRes: not parsed)
    stDiff,    \* the diff merged onto it (NoRes: none)
    stOut,     \* the document Byml::from made of it
    stBack,    \* what Static::try_from made of that document
    mrSelf,    \* the MergeableResource that diff or merge is called on
    mrOther,   \* its argument: another resource or a diff
    mrDiff,    \* what diff returned (NoRes: not called)
    mrMerged,  \* what merge returned (NoRes: not called)
    rdSarc,    \* an archive of shard files as a mod ships it
    rdOut,     \* what GameDataPack::from_sarc_writer made of it (NoRes: not called)
    gdDoc,     \* the document handed to GameData::try_from
    gdVal,     \* what it returned (NoRes: not called)
    gdOut,     \* the document Byml::from made of the GameData
    serTable,  \* the resource table handed to ResourceData::to_binary
    serEndian, \* the endianness asked for
    serStack,  \* the calls of to_binary that have not returned, the outermost first
    serOut,    \* what the outermost call returned (NoRes: it has not)
    cliCmd,    \* the subcommand, its input and the --deploy flag
    cliPc,     \* the next step of Runner::run
    cliMod,    \* mod_: the mod being installed or removed
    cliTodo,   \* Uninstall: the entered numbers not yet visited
    cliManifests, \* Uninstall: manifests, the manifest collected so far
    cliPending, \* deployer.pending()
    cliLog,    \* the calls made on the managers, in order
    cliOut     \* what Runner::run returned (NoRes: it has not)

lifeVars == <<base, modified, pending, acc, applied, pc>>
shardVars == <<pack, shards, sarc, reread, step>>
parseVars == <<resName, resData, resOut>>
archiveVars == <<arcMap, arcTable, arcFirst, arcChanged, arcSecond>>
manifestVars == <<maniStart, mani, maniLog, maniKeys>>
poolVars == <<poolMods, poolTable, poolNext, poolWork, poolLog>>
staticVars == <<stDoc, stVal, stDiff, stOut, stBack>>
variantVars == <<mrSelf, mrOther, mrDiff, mrMerged>>
readVars == <<rdSarc, rdOut>>
flagsVars == <<gdDoc, gdVal, gdOut>>
serialVars == <<serTable, serEndian, serStack, serOut>>
cliVars == <<cliCmd, cliPc, cliMod, cliTodo, cliManifests, cliPending, cliLog, cliOut>>
vars == <<base, modified, pending, acc, applied, pc, pack, shards, sarc, reread, step,
          resName, resData, resOut, arcMap, arcTable, arcFirst, arcChanged, arcSecond,
          maniStart, mani, maniLog, maniKeys,
          poolMods, poolTable, poolNext, poolWork, poolLog,
          stDoc, stVal, stDiff, stOut, stBack,
          mrSelf, mrOther, mrDiff, mrMerged,
          rdSarc, rdOut,
          gdDoc, gdVal, gdOut,
          serTable, serEndian, serStack, serOut,
          cliCmd, cliPc, cliMod, cliTodo, cliManifests, cliPending, cliLog, cliOut>>

\* What an action of one state machine leaves alone: the other machines.
outsideLife == <<shardVars, parseVars, archiveVars, manifestVars, poolVars, staticVars, variantVars, readVars, flagsVars, serialVars, cliVars>>
outsideShard == <<lifeVars, parseVars, archiveVars, manifestVars, poolVars, staticVars, variantVars, readVars, flagsVars, serialVars, cliVars>>
outsideParse == <<lifeVars, shardVars, archiveVars, manifestVars, poolVars, staticVars, variantVars, readVars, flagsVars, serialVars, cliVars>>
outsideArchive == <<lifeVars, shardVars, parseVars, manifestVars, poolVars, staticVars, variantVars, readVars, flagsVars, serialVars, cliVars>>
outsideManifest == <<lifeVars, shardVars, parseVars, archiveVars, poolVars, staticVars, variantVars, readVars, flagsVars, serialVars, cliVars>>
outsidePool == <<lifeVars, shardVars, parseVars, archiveVars, manifestVars, staticVars, variantVars, readVars, flagsVars, serialVars, cliVars>>
outsideStatic == <<lifeVars, shardVars, parseVars, archiveVars, manifestVars, poolVars, variantVars, readVars, flagsVars, serialVars, cliVars>>
outsideVariant == <<lifeVars, shardVars, parseVars, archiveVars, manifestVars, poolVars, staticVars, readVars, flagsVars, serialVars, cliVars>>
outsideRead == <<lifeVars, shardVars, parseVars, archiveVars, manifestVars, poolVars, staticVars, variantVars, flagsVars, serialVars, cliVars>>
outsideFlags == <<lifeVars, shardVars, parseVars, archiveVars, manifestVars, poolVars, staticVars, variantVars, readVars, serialVars, cliVars>>
outsideSerial == <<lifeVars, shardVars, parseVars, archiveVars, manifestVars, poolVars, staticVars, variantVars, readVars, flagsVars, cliVars>>
outsideCli == <<lifeVars, shardVars, parseVars, archiveVars, manifestVars, poolVars, staticVars, variantVars, readVars, flagsVars, serialVars>>

-----------------------------------------------------------------------------
(* Bounds of the model.                                                    *)

\* Number of mods whose diffs are folded onto one base.
MaxMods == 2

-----------------------------------------------------------------------------
(* Option<T>: None is the empty sequence, Some(x) the one-element one.     *)

None == <<>>
Some(x) == <<x>>
IsSome(o) == o /= <<>>

\* Option::or
OptOr(a, b) == IF IsSome(a) THEN a ELSE b

NoRes == [tag |-> "NoRes"]
Panic == [tag |-> "Panic"]

\* The state machines that a specification does not run stay idle.
LifeIdle ==
    /\ base = NoRes /\ modified = NoRes /\ pending = NoRes /\ acc = NoRes
    /\ applied = <<>>
    /\ pc = "idle"
ShardIdle ==
    /\ pack = NoRes /\ shards = NoRes /\ sarc = NoRes /\ reread = NoRes
    /\ step = "idle"
ParseIdle == resName = NoRes /\ resData = NoRes /\ resOut = NoRes
ArchiveIdle ==
    /\ arcMap = NoRes /\ arcTable = NoRes /\ arcFirst = NoRes
    /\ arcChanged = NoRes /\ arcSecond = NoRes
ManifestIdle ==
    /\ maniStart = NoRes /\ mani = NoRes /\ maniLog = <<>> /\ maniKeys = NoRes
PoolIdle ==
    /\ poolMods = NoRes /\ poolTable = NoRes /\ poolNext = NoRes
    /\ poolWork = NoRes /\ poolLog = <<>>
StaticIdle == stDoc = NoRes /\ stVal = NoRes /\ stDiff = NoRes /\ stOut = NoRes /\ stBack = NoRes
VariantIdle == mrSelf = NoRes /\ mrOther = NoRes /\ mrDiff = NoRes /\ mrMerged = NoRes
ReadIdle == rdSarc = NoRes /\ rdOut = NoRes
FlagsIdle == gdDoc = NoRes /\ gdVal = NoRes /\ gdOut = NoRes
SerialIdle == serTable = NoRes /\ serEndian = NoRes /\ serStack = NoRes /\ serOut = NoRes
CliIdle == cliCmd = NoRes /\ cliPc = NoRes /\ cliMod = NoRes /\ cliTodo = NoRes /\ cliManifests = NoRes /\ cliPending = NoRes /\ cliLog = NoRes /\ cliOut = NoRes

-----------------------------------------------------------------------------
(* Delete-aware collections (uk_content::util).  A map is a function from  *)
(* the keys it mentions to entries; an entry is present with a value or a  *)
(* tombstone; a key outside the domain is absent.                          *)

Present(v) == [st |-> "present", val |-> v]
Tombstone == [st |-> "deleted", val |-> None]

EmptyMap == <<>>

PresentKeys(m) == {k \in DOMAIN m : m[k].st = "present"}
DeletedKeys(m) == {k \in DOMAIN m : m[k].st = "deleted"}
HasTombstone(m) == DeletedKeys(m) /= {}

\* The map with the given present values: f is a function key -> value.
MapOf(f) == [k \in DOMAIN f |-> Present(f[k])]

\* DeleteMap::get / SortedDeleteMap::get
MapGet(m, k) == IF k \in PresentKeys(m) THEN Some(m[k].val) ELSE None

\* DeleteMap::diff / SortedDeleteMap::diff: keys of self missing from other
\* become tombstones, keys new or changed in other are present with other's
\* value, unchanged keys are absent.
MapDiff(self, other) ==
    LET changed == {k \in PresentKeys(other) :
                        k \notin PresentKeys(self) \/ self[k] /= other[k]}
        removed == PresentKeys(self) \ PresentKeys(other)
    IN  [k \in changed \cup removed |->
            IF k \in changed THEN other[k] ELSE Tombstone]

\* DeleteMap::merge / SortedDeleteMap::merge: tombstoned keys are removed,
\* present keys overwrite or insert, absent keys are carried over; the
\* tombstones are consumed.
MapMerge(self, diff) ==
    LET keep == PresentKeys(self) \ DOMAIN diff
        put  == PresentKeys(diff)
    IN  [k \in keep \cup put |-> IF k \in put THEN diff[k] ELSE self[k]]

\* DeleteMap::deep_diff: as MapDiff, but a key present on both sides with
\* different values holds the diff of the two nested maps.
MapDeepDiff(self, other) ==
    LET changed == {k \in PresentKeys(other) :
                        k \notin PresentKeys(self) \/ self[k] /= other[k]}
        removed == PresentKeys(self) \ PresentKeys(other)
    IN  [k \in changed \cup removed |->
            IF k \in removed THEN Tombstone
            ELSE IF k \in PresentKeys(self)
                 THEN Present(MapDiff(self[k].val, other[k].val))
                 ELSE other[k]]

\* DeleteMap::deep_merge: as MapMerge, but a key present on both sides
\* merges the nested diff into the nested map.
MapDeepMerge(self, diff) ==
    LET keep == PresentKeys(self) \ DOMAIN diff
        put  == PresentKeys(diff)
    IN  [k \in keep \cup put |->
            IF k \notin put THEN self[k]
            ELSE IF k \in PresentKeys(self)
                 THEN Present(MapMerge(self[k].val, diff[k].val))
                 ELSE Present(MapMerge(EmptyMap, diff[k].val))]

\* DeleteMap::insert
MapInsert(m, k, v) ==
    [x \in DOMAIN m \cup {k} |-> IF x = k THEN Present(v) ELSE m[x]]

\* DeleteVec<T>: a delete-aware collection of items, the live ones and the
\* ones marked deleted.
VecOf(items) == [live |-> {items[i] : i \in 1..Len(items)}, dead |-> {}]

\* DeleteVec::diff: the items only other has are live, the items only self
\* has are marked deleted.
VecDiff(self, other) ==
    [live |-> other.live \ self.live, dead |-> self.live \ other.live]

\* DeleteVec::merge: self's items without those the diff marks deleted, and
\* the diff's live items.
VecMerge(self, diff) ==
    [live |-> (self.live \ diff.dead) \cup diff.live, dead |-> {}]

\* util::diff_pobj: the parameters of other that self lacks or holds with
\* another value.
diff_pobj(self, other) ==
    [k \in {n \in DOMAIN other : n \notin DOMAIN self \/ self[n] /= other[n]} |->
        other[k]]

\* util::merge_pobj: self's parameters, replaced or extended by the diff's.
merge_pobj(self, diff) ==
    [k \in DOMAIN self \cup DOMAIN diff |->
        IF k \in DOMAIN diff THEN diff[k] ELSE self[k]]

-----------------------------------------------------------------------------
(* GameData (uk-content/src/data/gamedata.rs).                             *)

GameData(dt, flags) == [tag |-> "GameData", data_type |-> dt, flags |-> flags]

GameData_diff_reversed(self, other) ==
    IF self.data_type /= other.data_type THEN Panic
    ELSE GameData(self.data_type, MapDiff(other.flags, self.flags))

\* GameData::diff: assert_eq! on the data types, then the flag maps' diff.
GameData_diff(self, other) ==
    IF self.data_type /= other.data_type THEN Panic
    ELSE GameData(self.data_type, MapDiff(self.flags, other.flags))

GameData_merge_swapped(self, diff) ==
    IF self.data_type /= diff.data_type THEN Panic
    ELSE GameData(self.data_type, MapMerge(diff.flags, self.flags))

\* GameData::merge: assert_eq! on the data types, then the flag maps' merge.
GameData_merge(self, diff) ==
    IF self.data_type /= diff.data_type THEN Panic
    ELSE GameData(self.data_type, MapMerge(self.flags, diff.flags))

-----------------------------------------------------------------------------
(* SarcMap and BinaryResource (uk-mod/src/resource.rs).                    *)

SarcMap(m) == [tag |-> "Sarc", map |-> m]

\* SarcMap::diff
SarcMap_diff(self, other) == SarcMap(MapDiff(self.map, other.map))

SarcMap_merge_swapped(self, diff) == SarcMap(MapMerge(diff.map, self.map))

\* SarcMap::merge
SarcMap_merge_marking(self, diff) == SarcMap(diff.map @@ self.map)

SarcMap_merge(self, diff) == SarcMap(MapMerge(self.map, diff.map))

Agnostic(data) == [tag |-> "Binary", variant |-> "Agnostic", data |-> data]
Platform(wiiu, nx) ==
    [tag |-> "Binary", variant |-> "Platform", wiiu |-> wiiu, nx |-> nx]

ChangedSlot_always(u1, u2) == u2

\* (u1 != u2).then(|| u2.as_ref().cloned()).flatten()
ChangedSlot(u1, u2) == IF u1 /= u2 THEN u2 ELSE None

\* BinaryResource::diff
BinaryResource_diff(self, other) ==
    CASE self.variant = "Agnostic" /\ other.variant = "Agnostic" ->
            Agnostic(other.data)
      [] self.variant = "Platform" /\ other.variant = "Platform" ->
            Platform(ChangedSlot(self.wiiu, other.wiiu),
                     ChangedSlot(self.nx, other.nx))
      [] OTHER -> Panic

BinaryResource_merge_keep(self, diff) ==
    CASE self.variant = "Agnostic" /\ diff.variant = "Agnostic" ->
            Agnostic(self.data)
      [] self.variant = "Platform" /\ diff.variant = "Platform" ->
            Platform(OptOr(self.wiiu, diff.wiiu), OptOr(self.nx, diff.nx))
      [] OTHER -> Panic

\* BinaryResource::merge
BinaryResource_merge_partial(self, diff) ==
    CASE self.variant = "Agnostic" /\ diff.variant = "Agnostic" ->
            Agnostic(diff.data)
      [] self.variant = "Platform" /\ diff.variant = "Platform" ->
            Platform(OptOr(diff.wiiu, self.wiiu), self.nx)
      [] OTHER -> Panic

BinaryResource_merge(self, diff) ==
    CASE self.variant = "Agnostic" /\ diff.variant = "Agnostic" ->
            Agnostic(diff.data)
      [] self.variant = "Platform" /\ diff.variant = "Platform" ->
            Platform(OptOr(diff.wiiu, self.wiiu), OptOr(diff.nx, self.nx))
      [] OTHER -> Panic

-----------------------------------------------------------------------------
(* Static (uk-content/src/map/mainfield/mstatic.rs).                       *)

EntryPos(rotate, translate, player_state) ==
    [rotate |-> rotate, translate |-> translate, player_state |-> player_state]

\* general: a function from the top-level keys to DeleteVecs;
\* start_pos: a delete-aware map of delete-aware maps of EntryPos.
Static(general, start_pos) ==
    [tag |-> "Static", general |-> general, start_pos |-> start_pos]

\* One step of the try_fold over the StartPos entries: r is the Result so
\* far, [ok, val].
StartPosStep(r, entry) ==
    IF ~r.ok THEN r
    ELSE IF ~IsSome(entry.Map) THEN [ok |-> FALSE, val |-> "MissingBymlKey"]
    ELSE IF ~IsSome(entry.PosName) THEN r
    ELSE IF ~IsSome(entry.Rotate) \/ ~IsSome(entry.Translate)
         THEN [ok |-> FALSE, val |-> "MissingBymlKey"]
    ELSE LET map == entry.Map[1]
             pos_name == entry.PosName[1]
             pos == EntryPos(entry.Rotate[1], entry.Translate[1], entry.PlayerState)
         IN  [ok |-> TRUE,
              val |-> IF map \in PresentKeys(r.val)
                      THEN MapInsert(r.val, map,
                                     MapInsert(r.val[map].val, pos_name, pos))
                      ELSE MapInsert(r.val, map, MapInsert(EmptyMap, pos_name, pos))]

RECURSIVE StartPosFold(_, _, _)
StartPosFold(entries, i, r) ==
    IF i > Len(entries) THEN r
    ELSE StartPosFold(entries, i + 1, StartPosStep(r, entries[i]))

\* Static::try_from: start_pos from the entries of "StartPos" that have a
\* PosName, general from every top-level key.
Static_try_from(byml) ==
    IF "StartPos" \notin DOMAIN byml THEN [ok |-> FALSE, val |-> "MissingBymlKey"]
    ELSE LET sp == StartPosFold(byml["StartPos"], 1, [ok |-> TRUE, val |-> EmptyMap])
         IN  IF ~sp.ok THEN sp
             ELSE [ok |-> TRUE,
                   val |-> Static([key \in DOMAIN byml |-> VecOf(byml[key])], sp.val)]

\* Static::diff
Static_diff(self, other) ==
    Static(
        [key \in {k \in DOMAIN other.general :
                    k \notin DOMAIN self.general
                    \/ self.general[k] /= other.general[k]} |->
            IF key \in DOMAIN self.general
            THEN VecDiff(self.general[key], other.general[key])
            ELSE other.general[key]],
        MapDeepDiff(self.start_pos, other.start_pos))

\* Static::merge
Static_merge(self, diff) ==
    Static(
        [key \in DOMAIN self.general |->
            IF key \in DOMAIN diff.general
            THEN VecMerge(self.general[key], diff.general[key])
            ELSE self.general[key]],
        MapDeepMerge(self.start_pos, diff.start_pos))

-----------------------------------------------------------------------------
(* AttClientList (uk-content/src/actor/params/atcllist.rs).                *)

AttClientList(att_pos, att_clients) ==
    [tag |-> "AttClientList", att_pos |-> att_pos, att_clients |-> att_clients]

\* AttClientList::diff
AttClientList_diff(self, other) ==
    AttClientList(diff_pobj(self.att_pos, other.att_pos),
                  MapDiff(self.att_clients, other.att_clients))

\* AttClientList::merge
AttClientList_merge(self, diff) ==
    AttClientList(merge_pobj(self.att_pos, diff.att_pos),
                  MapMerge(self.att_clients, diff.att_clients))

-----------------------------------------------------------------------------
(* MergeableResource (uk-mod/src/resource.rs): the enum of the schemas;    *)
(* the variant is carried by the resource's tag.                           *)

\* MergeableResource::diff: the diff of the variant when both operands are
\* of one variant, panic!() otherwise.
MergeableResource_diff(self, other) ==
    CASE self.tag = "Static" /\ other.tag = "Static" -> Static_diff(self, other)
      [] self.tag = "AttClientList" /\ other.tag = "AttClientList" ->
            AttClientList_diff(self, other)
      [] OTHER -> Panic

MergeableResource_merge_lenient(self, diff) ==
    CASE self.tag = "Static" /\ diff.tag = "Static" -> Static_merge(self, diff)
      [] self.tag = "AttClientList" /\ diff.tag = "AttClientList" ->
            AttClientList_merge(self, diff)
      [] OTHER -> self

\* MergeableResource::merge
MergeableResource_merge(self, diff) ==
    CASE self.tag = "Static" /\ diff.tag = "Static" -> Static_merge(self, diff)
      [] self.tag = "AttClientList" /\ diff.tag = "AttClientList" ->
            AttClientList_merge(self, diff)
      [] OTHER -> Panic

-----------------------------------------------------------------------------
(* The Mergeable trait: the diff or merge of the implementing type.        *)

Diff(a, b) ==
    CASE a.tag = "GameData" -> GameData_diff(a, b)
      [] a.tag = "Sarc"     -> SarcMap_diff(a, b)
      [] a.tag = "Binary"   -> BinaryResource_diff(a, b)
      [] OTHER              -> MergeableResource_diff(a, b)

Merge(a, d) ==
    CASE a.tag = "GameData" -> GameData_merge(a, d)
      [] a.tag = "Sarc"     -> SarcMap_merge(a, d)
      [] a.tag = "Binary"   -> BinaryResource_merge(a, d)
      [] OTHER              -> MergeableResource_merge(a, d)

-----------------------------------------------------------------------------
(* The resources the model draws its inputs from.                          *)

\* The functions from a subset S of K to the values V[k] allowed for k.
Maps(K, V) ==
    UNION { {f \in [S -> UNION {V[k] : k \in S}] : \A k \in S : f[k] \in V[k]} :
            S \in SUBSET K }

\* A game-data flag as the document stores it.
FlagItem(hash, value) == [HashValue |-> hash, Value |-> value]

\* Flags A, B, C of the merge scenarios are the hashes 1, 2, 3.
FlagKeys == {1, 2, 3}
FlagVals == [k \in FlagKeys |-> CASE k = 1 -> {1, 7, 9} [] k = 2 -> {2} [] k = 3 -> {3}]

FlagMaps ==
    {MapOf([k \in DOMAIN f |-> FlagItem(k, f[k])]) : f \in Maps(FlagKeys, FlagVals)}

GameDatas == {GameData("bool_data", m) : m \in FlagMaps}

\* Archive entries: path -> canonical resource key.
SarcPaths == {"x.dat", "y.dat", "z.dat"}
SarcCanon ==
    [p \in SarcPaths |->
        CASE p = "x.dat" -> {"x.dat", "Pack/x.dat"}
          [] p = "y.dat" -> {"y.dat"}
          [] p = "z.dat" -> {"z.dat"}]

SarcMaps == {SarcMap(MapOf(f)) : f \in Maps(SarcPaths, SarcCanon)}

Bytes == {"b1", "b2"}
Slots == {None} \cup {Some(b) : b \in Bytes}
Agnostics == {Agnostic(b) : b \in Bytes}
Platforms == {Platform(u, n) : u \in Slots, n \in Slots}
BinaryResources == Agnostics \cup Platforms

\* Static documents: a hash of arrays; the entries of StartPos are hashes
\* whose keys may be missing.
PosEntry(map, pos_name, rotate, translate, player_state) ==
    [Map |-> map, PosName |-> pos_name, Rotate |-> rotate,
     Translate |-> translate, PlayerState |-> player_state]

EntranceEntries ==
    {PosEntry(Some("CDungeon"), Some("Entrance"), Some("r0"), Some("t0"), None),
     PosEntry(Some("CDungeon"), Some("Entrance"), Some("r1"), Some("t1"), Some("Wait"))}
ExitEntry == PosEntry(Some("CDungeon"), Some("Exit"), Some("r0"), Some("t0"), None)
UnnamedEntry == PosEntry(Some("CDungeon"), None, Some("r2"), Some("t2"), None)

StartPosArrays ==
    {a \o b : a \in {<<>>} \cup {<<e>> : e \in EntranceEntries},
              b \in {<<>>, <<ExitEntry>>, <<UnnamedEntry, ExitEntry>>}}

MarkerArrays == {<<"m1", "m2">>}

StaticDocs ==
    {[k \in {"StartPos"} |-> sp] : sp \in StartPosArrays}
    \cup {[k \in {"StartPos", "LocationMarker"} |->
                IF k = "StartPos" THEN sp ELSE lm] :
            sp \in StartPosArrays, lm \in MarkerArrays}

Statics == {Static_try_from(doc).val : doc \in StaticDocs}

\* The parameters of the AttPos object and the clients of the list.  The
\* list takes the AttPos object as the document holds it, with whichever
\* of the parameters are there.
AttPosParams == {"AttPosX", "AttPosY"}
AttPosVals == [p \in AttPosParams |-> CASE p = "AttPosX" -> {0, 1} [] p = "AttPosY" -> {0}]
AttPosObjs == Maps(AttPosParams, AttPosVals)
ClientNames == {"Lock", "Look", "Talk"}
ClientFiles ==
    [n \in ClientNames |->
        CASE n = "Lock" -> {"Lock.batcl", "LockB.batcl"}
          [] n = "Look" -> {"Look.batcl"}
          [] n = "Talk" -> {"Talk.batcl"}]
AttClientLists ==
    {AttClientList(p, MapOf(f)) : p \in AttPosObjs, f \in Maps(ClientNames, ClientFiles)}

\* The base resources of a path.
Bases == GameDatas \cup SarcMaps \cup BinaryResources \cup Statics \cup AttClientLists

\* The resources of base's kind.
SameKind(b) ==
    CASE b.tag = "GameData"      -> GameDatas
      [] b.tag = "Sarc"          -> SarcMaps
      [] b.tag = "Binary"        -> BinaryResources
      [] b.tag = "Static"        -> Statics
      [] b.tag = "AttClientList" -> AttClientLists

\* What a later mod of the load order ships for this path: for the large
\* kinds, the base changed in one place.
LaterMods(b) ==
    CASE b.tag = "Static" ->
            {s \in Statics :
                Cardinality({k \in DOMAIN s.general \cup DOMAIN b.general :
                                \/ k \notin DOMAIN s.general
                                \/ k \notin DOMAIN b.general
                                \/ s.general[k] /= b.general[k]}) <= 1}
      [] b.tag = "AttClientList" ->
            {AttClientList(p, b.att_clients) : p \in AttPosObjs}
            \cup {AttClientList(b.att_pos, MapOf(f)) :
                    f \in {g \in Maps(ClientNames, ClientFiles) :
                            Cardinality({n \in ClientNames :
                                MapGet(MapOf(g), n) /= MapGet(b.att_clients, n)}) <= 1}}
      [] OTHER -> SameKind(b)

\* What a mod may ship for the path of base: a resource of the same kind or,
\* by a caller's mistake, game data of another data type or a binary
\* resource of the other variant (both are in SameKind for Binary).
ModCopies(b) ==
    (IF applied = <<>> THEN SameKind(b) ELSE LaterMods(b))
    \cup (IF b.tag = "GameData" THEN {GameData("s32_data", EmptyMap)} ELSE {})
    \cup (IF b.tag = "Static" THEN {AttClientList(<<>>, EmptyMap)} ELSE {})
    \cup (IF b.tag = "AttClientList" THEN {Static(<<>>, EmptyMap)} ELSE {})

\* The diffs of another schema that a mod packaged elsewhere may ship for the
\* path of a: game data of another data type, the other variant of a binary
\* resource, the other variant of a mergeable resource.
ForeignDiffs(a) ==
    CASE a.tag = "GameData" -> {GameData("s32_data", EmptyMap)}
      [] a.tag = "Binary" ->
            IF a.variant = "Agnostic" THEN {Platform(None, Some("b1"))}
            ELSE {Agnostic("b1")}
      [] a.tag = "Static" -> {AttClientList(<<>>, EmptyMap)}
      [] a.tag = "AttClientList" -> {Static(<<>>, EmptyMap)}
      [] OTHER -> {}

-----------------------------------------------------------------------------
(* The life of one resource path.                                          *)

Init ==
    /\ base \in Bases
    /\ modified = NoRes
    /\ pending = NoRes
    /\ acc = base
    /\ applied = <<>>
    /\ pc = "run"
    /\ ShardIdle /\ ParseIdle /\ ArchiveIdle /\ ManifestIdle /\ PoolIdle /\ StaticIdle /\ VariantIdle /\ ReadIdle /\ FlagsIdle /\ SerialIdle /\ CliIdle

\* A mod is unpacked: its copy b of the resource is diffed against the base.
Unpack(b) ==
    /\ pc = "run"
    /\ pending.tag = "NoRes"
    /\ Len(applied) < MaxMods
    /\ modified' = b
    /\ LET d == Diff(base, b)
       IN  /\ pending' = IF d.tag = "Panic" THEN NoRes ELSE d
           /\ pc' = IF d.tag = "Panic" THEN "panicked" ELSE "run"
    /\ UNCHANGED <<base, acc, applied>>
    /\ UNCHANGED outsideLife

\* The unpacked diff is merged onto the accumulator, last in load order.
Apply ==
    /\ pc = "run"
    /\ pending.tag /= "NoRes"
    /\ LET m == Merge(acc, pending)
       IN  /\ acc' = IF m.tag = "Panic" THEN acc ELSE m
           /\ applied' = IF m.tag = "Panic" THEN applied ELSE Append(applied, pending)
           /\ pc' = IF m.tag = "Panic" THEN "panicked" ELSE "run"
    /\ pending' = NoRes
    /\ UNCHANGED <<base, modified>>
    /\ UNCHANGED outsideLife

\* A diff d that a mod ships ready-made is merged onto the accumulator; when
\* the merge aborts, pending keeps the diff that was being merged.
Install(d) ==
    /\ pc = "run"
    /\ pending.tag = "NoRes"
    /\ Len(applied) < MaxMods
    /\ LET m == Merge(acc, d)
       IN  /\ acc' = IF m.tag = "Panic" THEN acc ELSE m
           /\ applied' = IF m.tag = "Panic" THEN applied ELSE Append(applied, d)
           /\ pending' = IF m.tag = "Panic" THEN d ELSE NoRes
           /\ pc' = IF m.tag = "Panic" THEN "panicked" ELSE "run"
    /\ UNCHANGED <<base, modified>>
    /\ UNCHANGED outsideLife

Next ==
    \/ \E b \in ModCopies(base) : Unpack(b)
    \/ Apply
    \/ \E d \in ForeignDiffs(acc) : Install(d)

Spec == Init /\ [][Next]_vars

-----------------------------------------------------------------------------
(* Strings that the code builds or matches character by character (file    *)
(* names, field names, data types) are sequences of one-character strings. *)

\* str::starts_with
StartsWith(s, prefix) ==
    Len(prefix) <= Len(s) /\ SubSeq(s, 1, Len(prefix)) = prefix

\* str::trim_start_matches: the pattern is removed from the start as often
\* as it is found there.
RECURSIVE TrimStartMatches(_, _)
TrimStartMatches(s, pat) ==
    IF StartsWith(s, pat)
    THEN TrimStartMatches(SubSeq(s, Len(pat) + 1, Len(s)), pat)
    ELSE s

\* The decimal digits of format!("{}", i) for an index i.
DigitChars == <<"0", "1", "2", "3", "4", "5", "6", "7", "8", "9">>
RECURSIVE Decimal(_)
Decimal(i) ==
    IF i < Len(DigitChars) THEN <<DigitChars[i + 1]>>
    ELSE Decimal(i \div Len(DigitChars)) \o <<DigitChars[(i % Len(DigitChars)) + 1]>>

\* The byte of every character a file name holds: String orders by bytes.
CharCode ==
    [c \in {"/", ".", "_"} \cup {DigitChars[i] : i \in 1..Len(DigitChars)}
            \cup {"A", "a", "b", "c", "d", "e", "f", "g", "i", "l", "m", "n",
                  "o", "r", "s", "t", "v", "y"} |->
        CASE c = "." -> 46 [] c = "/" -> 47 [] c = "_" -> 95
          [] c = "A" -> 65 [] c = "m" -> 109
          [] c = "0" -> 48 [] c = "1" -> 49 [] c = "2" -> 50 [] c = "3" -> 51
          [] c = "4" -> 52 [] c = "5" -> 53 [] c = "6" -> 54 [] c = "7" -> 55
          [] c = "8" -> 56 [] c = "9" -> 57
          [] c = "a" -> 97 [] c = "b" -> 98 [] c = "c" -> 99 [] c = "d" -> 100
          [] c = "e" -> 101 [] c = "f" -> 102 [] c = "g" -> 103
          [] c = "i" -> 105 [] c = "l" -> 108 [] c = "n" -> 110
          [] c = "o" -> 111 [] c = "r" -> 114 [] c = "s" -> 115
          [] c = "t" -> 116 [] c = "v" -> 118 [] c = "y" -> 121]

\* Ord for String: the first differing byte decides, a proper prefix is less.
StrLess(a, b) ==
    LET n == IF Len(a) < Len(b) THEN Len(a) ELSE Len(b)
        d == {i \in 1..n : a[i] /= b[i]}
        first == CHOOSE i \in d : \A j \in d : i <= j
    IN  IF d = {} THEN Len(a) < Len(b)
        ELSE CharCode[a[first]] < CharCode[b[first]]

\* The 18 fields of GameDataPack, in the order the macros list them.
FieldOrder ==
    <<<<"b", "o", "o", "l", "_", "a", "r", "r", "a", "y", "_", "d", "a", "t", "a">>,
      <<"b", "o", "o", "l", "_", "d", "a", "t", "a">>,
      <<"f", "3", "2", "_", "a", "r", "r", "a", "y", "_", "d", "a", "t", "a">>,
      <<"f", "3", "2", "_", "d", "a", "t", "a">>,
      <<"r", "e", "v", "i", "v", "a", "l", "_", "b", "o", "o", "l", "_", "d", "a", "t", "a">>,
      <<"r", "e", "v", "i", "v", "a", "l", "_", "s", "3", "2", "_", "d", "a", "t", "a">>,
      <<"s", "3", "2", "_", "a", "r", "r", "a", "y", "_", "d", "a", "t", "a">>,
      <<"s", "3", "2", "_", "d", "a", "t", "a">>,
      <<"s", "t", "r", "i", "n", "g", "3", "2", "_", "d", "a", "t", "a">>,
      <<"s", "t", "r", "i", "n", "g", "6", "4", "_", "a", "r", "r", "a", "y", "_", "d", "a", "t", "a">>,
      <<"s", "t", "r", "i", "n", "g", "6", "4", "_", "d", "a", "t", "a">>,
      <<"s", "t", "r", "i", "n", "g", "2", "5", "6", "_", "a", "r", "r", "a", "y", "_", "d", "a", "t", "a">>,
      <<"s", "t", "r", "i", "n", "g", "2", "5", "6", "_", "d", "a", "t", "a">>,
      <<"v", "e", "c", "t", "o", "r", "2", "f", "_", "a", "r", "r", "a", "y", "_", "d", "a", "t", "a">>,
      <<"v", "e", "c", "t", "o", "r", "2", "f", "_", "d", "a", "t", "a">>,
      <<"v", "e", "c", "t", "o", "r", "3", "f", "_", "a", "r", "r", "a", "y", "_", "d", "a", "t", "a">>,
      <<"v", "e", "c", "t", "o", "r", "3", "f", "_", "d", "a", "t", "a">>,
      <<"v", "e", "c", "t", "o", "r", "4", "f", "_", "d", "a", "t", "a">>>>

Fields == {FieldOrder[i] : i \in 1..Len(FieldOrder)}

\* The data type the reader gives a field: "string_data" for string32_data,
\* else the field name without leading "revival_".
DataTypeOf(key) ==
    IF key = <<"s", "t", "r", "i", "n", "g", "3", "2", "_", "d", "a", "t", "a">>
    THEN <<"s", "t", "r", "i", "n", "g", "_", "d", "a", "t", "a">>
    ELSE TrimStartMatches(key, <<"r", "e", "v", "i", "v", "a", "l", "_">>)

\* format!("/{}_{}.bgdata", field, i)
FileName(field, i) ==
    <<"/">> \o field \o <<"_">> \o Decimal(i) \o <<".", "b", "g", "d", "a", "t", "a">>

-----------------------------------------------------------------------------
(* Game-data packs.  A pack field holds up to millions of flags, so a      *)
(* tombstone-free flag map is held here by its runs of consecutive hash    *)
(* keys: an ascending sequence of runs [lo, hi] that neither overlap nor   *)
(* touch.  The flag stored under key k is the entry whose HashValue is k.  *)

\* Shard capacity: the 4096 of take(4096) and of the divisor in divide.
ShardCap == 4096

\* 2^24: an f32 has a 24-bit significand, so `as f32` is exact up to here.
F32Mantissa == 16777216

Min(a, b) == IF a < b THEN a ELSE b
Max(a, b) == IF a < b THEN b ELSE a
CeilDiv(a, b) == (a + b - 1) \div b

\* The n consecutive keys from lo on, as a flag map.
Run(lo, n) == IF n = 0 THEN <<>> ELSE <<[lo |-> lo, hi |-> lo + n - 1]>>

RunLen(r) == r.hi - r.lo + 1

\* SortedDeleteMap::len of the first j runs, and of the whole map.
RECURSIVE RunsOff(_, _)
RunsOff(rs, j) == IF j = 0 THEN 0 ELSE RunsOff(rs, j - 1) + RunLen(rs[j])
RunsLen(rs) == RunsOff(rs, Len(rs))

\* iter.skip(from).take(n): the entries at positions from .. from+n-1 of the
\* ascending key order.
RECURSIVE RunsSliceFrom(_, _, _, _)
RunsSliceFrom(rs, j, from, n) ==
    IF j > Len(rs) THEN <<>>
    ELSE LET off == RunsOff(rs, j - 1)
             a == Max(from, off)
             b == Min(from + n, off + RunLen(rs[j]))
         IN  (IF a < b
              THEN <<[lo |-> rs[j].lo + (a - off), hi |-> rs[j].lo + (b - 1 - off)]>>
              ELSE <<>>)
             \o RunsSliceFrom(rs, j + 1, from, n)
RunsSlice(rs, from, n) == RunsSliceFrom(rs, 1, from, n)

\* SortedDeleteMap::insert of the entries of one run: the runs it overlaps
\* or touches become one run with it.
InsertRun(rs, r) ==
    LET Before(x) == x.hi + 1 < r.lo
        After(x) == r.hi + 1 < x.lo
        Touch(x) == ~Before(x) /\ ~After(x)
        touch == SelectSeq(rs, Touch)
        lo == IF touch = <<>> THEN r.lo ELSE Min(r.lo, touch[1].lo)
        hi == IF touch = <<>> THEN r.hi ELSE Max(r.hi, touch[Len(touch)].hi)
    IN  SelectSeq(rs, Before) \o <<[lo |-> lo, hi |-> hi]>> \o SelectSeq(rs, After)

\* SortedDeleteMap::merge for a diff without tombstones: every entry of the
\* diff is inserted.
RECURSIVE RunsMergeFrom(_, _, _)
RunsMergeFrom(self, diff, j) ==
    IF j > Len(diff) THEN self
    ELSE RunsMergeFrom(InsertRun(self, diff[j]), diff, j + 1)
RunsMerge(self, diff) == RunsMergeFrom(self, diff, 1)

\* `n as f32` for a usize n: the nearest f32, ties to the even significand.
RECURSIVE F32Ulp(_, _)
F32Ulp(n, u) == IF n < F32Mantissa * u THEN u ELSE F32Ulp(n, 2 * u)
AsF32(n) ==
    LET u == F32Ulp(n, 1)
        q == n \div u
        r == n % u
    IN  IF 2 * r < u \/ (2 * r = u /\ q % 2 = 0) THEN q * u ELSE (q + 1) * u

\* GameData::divide.  The division by 4096. and ceil() are exact in f32 (a
\* division by a power of two); the rounding is that of `as f32`.
GameData_divide(self) ==
    LET total == CeilDiv(AsF32(RunsLen(self.flags)), ShardCap)
    IN  [i \in 1..total |->
            GameData(self.data_type, RunsSlice(self.flags, (i - 1) * ShardCap, ShardCap))]

GameData_merge_runs_last(self, diff) ==
    IF self.data_type /= diff.data_type THEN Panic
    ELSE GameData(self.data_type, diff.flags)

\* GameData::merge on flag maps held as runs.
GameData_merge_runs(self, diff) ==
    IF self.data_type /= diff.data_type THEN Panic
    ELSE GameData(self.data_type, RunsMerge(self.flags, diff.flags))

\* Result<T>
Ok(v) == [tag |-> "Ok", val |-> v]
Err(e) == [tag |-> "Err", val |-> e]

\* Byml::from(GameData): a hash with the data type as its one key and the
\* array of the flag values in ascending key order under it.
Byml_from_GameData(val) == <<[key |-> val.data_type, value |-> val.flags]>>

\* GameData::try_from(&Byml) for a hash of (key, array) entries: the data
\* type is the first key, the flags are the entries of the first array under
\* their HashValue; a document written by hand may hold, besides them,
\* entries without HashValue (unkeyed), which make the call an error.
GameData_try_from(byml) ==
    IF byml = <<>> THEN Err("MissingBymlKey")
    ELSE IF "unkeyed" \in DOMAIN byml[1] THEN Err("MissingBymlKey")
    ELSE Ok(GameData(byml[1].key, RunsMerge(<<>>, byml[1].value)))

\* Byml::to_binary and Byml::from_binary: the magic tells the byte order.
Endians == {"Big", "Little"}
Byml_to_binary(byml, endian) ==
    [magic |-> IF endian = "Big" THEN "BY" ELSE "YB", body |-> byml]
Byml_from_binary(data) ==
    IF data.magic \in {"BY", "YB"} THEN Ok(data.body) ELSE Err("InvalidData")

\* The order in which a BTreeMap<String, _> holds the names "/T_i.bgdata"
\* of one field T for i < total: that of the decimal digits of i read as
\* text ("_10" before "_2"; "_1." before "_10" since "." is below "0").
RECURSIVE NamesUnder(_, _)
RECURSIVE NamesBelow(_, _, _)
NamesUnder(i, total) ==
    IF i >= total THEN <<>> ELSE <<i>> \o NamesBelow(i, 0, total)
NamesBelow(i, d, total) ==
    IF d >= Len(DigitChars) THEN <<>>
    ELSE NamesUnder(Len(DigitChars) * i + d, total) \o NamesBelow(i, d + 1, total)
RECURSIVE NamesFrom(_, _)
NamesFrom(d, total) ==
    IF d >= Len(DigitChars) THEN <<>>
    ELSE NamesUnder(d, total) \o NamesFrom(d + 1, total)
ShardNameOrder(total) ==
    IF total = 0 THEN <<>> ELSE <<0>> \o NamesFrom(1, total)

\* The fields in the order of their names as text.
FieldsByName ==
    [i \in 1..Len(FieldOrder) |->
        CHOOSE f \in Fields :
            Cardinality({g \in Fields : StrLess(g, f)}) = i - 1]

RECURSIVE Concat(_, _)
Concat(seqs, i) == IF i > Len(seqs) THEN <<>> ELSE seqs[i] \o Concat(seqs, i + 1)

\* build_gamedata_pack!: every shard i that divide returned for field T is
\* added under "/T_i.bgdata"; SarcWriter::files is a BTreeMap and holds the
\* files by name.
build_gamedata_pack(divided, endian) ==
    LET FilesOf(f) ==
            LET ord == ShardNameOrder(Len(divided[f]))
            IN  [k \in 1..Len(ord) |->
                    [name |-> FileName(f, ord[k]),
                     data |-> Byml_to_binary(Byml_from_GameData(divided[f][ord[k] + 1]),
                                             endian)]]
    IN  [endian |-> endian,
         files |-> Concat([i \in 1..Len(FieldsByName) |-> FilesOf(FieldsByName[i])], 1)]

\* GameDataPack::into_sarc_writer
into_sarc_writer(self, endian) ==
    build_gamedata_pack([f \in Fields |-> GameData_divide(self[f])], endian)

\* The fold of extract_sarcwriter_gamedata!: acc.merge(&val) over the parsed
\* shards lo..hi in the order of the files.
RECURSIVE FoldMerge(_, _, _, _)
FoldMerge(vals, lo, hi, a) ==
    IF lo > hi \/ a.tag = "Panic" THEN a
    ELSE IF lo = hi THEN GameData_merge_runs(a, vals[lo].val)
    ELSE LET mid == (lo + hi) \div 2
             left == FoldMerge(vals, lo, mid, a)
         IN  FoldMerge(vals, mid + 1, hi, left)

\* extract_sarcwriter_gamedata! for one field: the files whose name without
\* leading '/' starts with the field name are parsed, the first error is
\* returned, and the shards are merged onto an empty map of the field's
\* data type.
extract_sarcwriter_gamedata(s, key) ==
    LET Match(f) == StartsWith(TrimStartMatches(f.name, <<"/">>), key)
        matched == SelectSeq(s.files, Match)
        parsed == [i \in 1..Len(matched) |->
                      LET b == Byml_from_binary(matched[i].data)
                      IN  IF b.tag = "Ok" THEN GameData_try_from(b.val) ELSE b]
        bad == {i \in 1..Len(parsed) : parsed[i].tag = "Err"}
        r == FoldMerge(parsed, 1, Len(parsed), GameData(DataTypeOf(key), <<>>))
    IN  IF bad /= {} THEN parsed[CHOOSE i \in bad : \A j \in bad : i <= j]
        ELSE IF r.tag = "Panic" THEN Panic
        ELSE Ok(r)

\* GameDataPack::from_sarc_writer: the fields are read in the macro's order;
\* the first error or panic ends the call.
from_sarc_writer(s) ==
    LET got == [f \in Fields |-> extract_sarcwriter_gamedata(s, f)]
        bad == {i \in 1..Len(FieldOrder) : got[FieldOrder[i]].tag /= "Ok"}
    IN  IF bad = {} THEN Ok([f \in Fields |-> got[f].val])
        ELSE got[FieldOrder[CHOOSE i \in bad : \A j \in bad : i <= j]]

-----------------------------------------------------------------------------
(* The packs that are written.  One field holds the count of flags under   *)
(* test, with keys in one run or in two runs with a key missing between;   *)
(* the other fields hold none or one flag.                                 *)

ShardCounts ==
    {0, 1, 2, ShardCap - 1, ShardCap, ShardCap + 1, 2 * ShardCap, 2 * ShardCap + 1}

\* Counts at which `as f32` starts to round.
LargeCounts == {F32Mantissa, F32Mantissa + 1, F32Mantissa + 2}

\* The keys 1.. of n flags; with a gap, the key after the first half is
\* left out.
FlagRuns(n, gap) ==
    IF gap /\ n >= 2
    THEN Run(1, n \div 2) \o Run((n \div 2) + 2, n - (n \div 2))
    ELSE Run(1, n)

PackOf(field, n, gap, rest) ==
    [f \in Fields |->
        GameData(DataTypeOf(f), IF f = field THEN FlagRuns(n, gap) ELSE Run(1, rest))]

ShardPacks ==
    {PackOf(f, n, gap, rest) :
        f \in Fields, n \in ShardCounts, gap \in BOOLEAN, rest \in {0, 1}}
    \cup {PackOf(FieldOrder[2], n, FALSE, 0) : n \in LargeCounts}

InitShard ==
    /\ pack \in ShardPacks
    /\ shards = NoRes /\ sarc = NoRes /\ reread = NoRes
    /\ step = "loaded"
    /\ LifeIdle /\ ParseIdle /\ ArchiveIdle /\ ManifestIdle /\ PoolIdle /\ StaticIdle /\ VariantIdle /\ ReadIdle /\ FlagsIdle /\ SerialIdle /\ CliIdle

\* pack.into_sarc_writer(endian)
IntoSarcWriter(endian) ==
    /\ step = "loaded"
    /\ shards' = [f \in Fields |-> GameData_divide(pack[f])]
    /\ sarc' = into_sarc_writer(pack, endian)
    /\ step' = "written"
    /\ UNCHANGED <<pack, reread>>
    /\ UNCHANGED outsideShard

\* GameDataPack::from_sarc_writer(&sarc)
FromSarcWriter ==
    /\ step = "written"
    /\ reread' = from_sarc_writer(sarc)
    /\ step' = IF reread'.tag = "Panic" THEN "panicked" ELSE "read"
    /\ UNCHANGED <<pack, shards, sarc>>
    /\ UNCHANGED outsideShard

NextShard ==
    \/ \E endian \in Endians : IntoSarcWriter(endian)
    \/ FromSarcWriter

SpecShard == InitShard /\ [][NextShard]_vars

-----------------------------------------------------------------------------
(* ResourceData::from_binary (uk-mod/src/resource.rs): the schema of a     *)
(* file is chosen by its path, then by the header of its bytes.  Bytes are *)
(* sequences of one-character strings.  A path is known by the set of      *)
(* schemas whose pattern matches it.                                       *)

\* Longest input of from_binary, in bytes.
MaxDataLen == 5

\* The schemas in the order in which from_binary asks for a match.
SchemaOrder ==
    <<"Actor", "ActorInfo", "ActorLink", "AIProgram", "AISchedule",
      "AnimationInfo", "AreaData", "AS", "ASList", "AttClient",
      "AttClientList", "Awareness", "BarslistInfo", "BoneControl", "Chemical",
      "ChemicalRes", "CookData", "DamageParam", "Demo", "DropTable",
      "EventInfo", "GameDataPack", "GeneralParamList", "LazyTraverseList",
      "LevelSensor", "LifeCondition", "Location", "Lod", "MapUnit",
      "ModelList", "Physics", "QuestProduct", "RagdollBlendWeight",
      "RagdollConfig", "RagdollConfigList", "Recipe", "ResidentActors",
      "ResidentEvents", "SaveDataPack", "ShopData", "ShopGameDataInfo",
      "Static", "StatusEffectList", "Tips", "UMii", "WorldInfo">>

\* T::path_matches(name)
path_matches(kind, n) == kind \in n

FirstMatch_last(n) ==
    LET idx == {i \in 1..Len(SchemaOrder) : path_matches(SchemaOrder[i], n)}
    IN  IF idx = {} THEN 0 ELSE CHOOSE i \in idx : \A j \in idx : j <= i

\* The index of the first schema of the if-chain that matches, 0 if none.
FirstMatch(n) ==
    LET idx == {i \in 1..Len(SchemaOrder) : path_matches(SchemaOrder[i], n)}
    IN  IF idx = {} THEN 0 ELSE CHOOSE i \in idx : \A j \in idx : i <= j

Yaz0Magic == <<"Y", "a", "z", "0">>
AampMagic == <<"A", "A", "M", "P">>
BymlBig == <<"B", "Y">>
BymlLittle == <<"Y", "B">>

\* roead::yaz0::decompress_if: bytes that start with the Yaz0 magic are
\* decompressed (an error when nothing follows the header), other bytes are
\* returned as they are.
decompress_if(data) ==
    IF StartsWith(data, Yaz0Magic)
    THEN IF Len(data) = Len(Yaz0Magic) THEN Err("Yaz0Error")
         ELSE Ok(SubSeq(data, Len(Yaz0Magic) + 1, Len(data)))
    ELSE Ok(data)

\* ResourceData::Mergeable(MergeableResource::<kind>(..)) parsed from data.
Typed(kind, data) == [tag |-> "Mergeable", variant |-> kind, data |-> data]

\* T::from_binary(&data)?: the parser of the schema accepts a document of
\* the parameter format or of the binary-tree format.
Typed_from_binary(kind, data) ==
    IF StartsWith(data, AampMagic) \/ StartsWith(data, BymlBig)
        \/ StartsWith(data, BymlLittle)
    THEN Ok(Typed(kind, data))
    ELSE Err("ParseError")

\* ResourceData::from_binary
from_binary(n, bytes) ==
    LET d == decompress_if(bytes)
        data == d.val
        m == FirstMatch(n)
    IN  IF d.tag = "Err" THEN d
        ELSE IF m /= 0 THEN Typed_from_binary(SchemaOrder[m], data)
        ELSE IF Len(data) > 4 /\ SubSeq(data, 1, 4) = AampMagic
             THEN Ok(Agnostic(data))
        ELSE IF Len(data) > 2
                /\ (SubSeq(data, 1, 2) = BymlBig \/ SubSeq(data, 1, 2) = BymlLittle)
             THEN Ok(Platform(
                    IF SubSeq(data, 1, 2) = BymlBig THEN Some(data) ELSE None,
                    IF SubSeq(data, 1, 2) = BymlLittle THEN Some(data) ELSE None))
        ELSE Panic

\* The inputs: every uncompressed byte string of up to MaxDataLen bytes over
\* the letters of the magics; paths that match no schema, one schema or two.
ByteAlphabet == {"A", "M", "P", "B", "Y"}
DataInputs == UNION {[1..k -> ByteAlphabet] : k \in 0..MaxDataLen}
NameInputs ==
    {{}, {"Static"}, {"AttClient", "AttClientList"}, {"Actor", "ActorInfo"},
     {"WorldInfo"}}

InitParse ==
    /\ resName \in NameInputs
    /\ resData \in DataInputs
    /\ resOut = NoRes
    /\ LifeIdle /\ ShardIdle /\ ArchiveIdle /\ ManifestIdle /\ PoolIdle /\ StaticIdle /\ VariantIdle /\ ReadIdle /\ FlagsIdle /\ SerialIdle /\ CliIdle

\* ResourceData::from_binary(name, data)
FromBinary ==
    /\ resOut = NoRes
    /\ resOut' = from_binary(resName, resData)
    /\ UNCHANGED <<resName, resData>>
    /\ UNCHANGED outsideParse

NextParse == FromBinary

SpecParse == InitParse /\ [][NextParse]_vars

-----------------------------------------------------------------------------
(* Serialization of archives (uk-mod/src/resource.rs).  Bytes are          *)
(* sequences of strings; errors carry their message as such a sequence.    *)

GenericAamp(doc) == [tag |-> "GenericAamp", doc |-> doc]
GenericByml(doc) == [tag |-> "GenericByml", doc |-> doc]

BinaryResource_to_binary_marked(self, endian) ==
    IF self.variant = "Agnostic" THEN Ok(<<endian>> \o self.data)
    ELSE LET slot == IF endian = "Big" THEN self.wiiu ELSE self.nx
         IN  IF IsSome(slot) THEN Ok(slot[1])
             ELSE Err(<<"Resource missing binary data for target platform">>)

BinaryResource_to_binary_fallback(self, endian) ==
    IF self.variant = "Agnostic" THEN Ok(self.data)
    ELSE LET slot == IF endian = "Big" THEN OptOr(self.wiiu, self.nx)
                     ELSE OptOr(self.nx, self.wiiu)
         IN  IF IsSome(slot) THEN Ok(slot[1])
             ELSE Err(<<"Resource missing binary data for target platform">>)

\* BinaryResource::to_binary
BinaryResource_to_binary(self, endian) ==
    IF self.variant = "Agnostic" THEN Ok(self.data)
    ELSE LET slot == IF endian = "Big" THEN self.wiiu ELSE self.nx
         IN  IF IsSome(slot) THEN Ok(slot[1])
             ELSE Err(<<"Resource missing binary data for target platform">>)

\* MergeableResource::into_binary, the generic variants: the parameter
\* format has one byte order, the binary-tree format that of the platform.
MergeableResource_into_binary(self, endian) ==
    CASE self.tag = "GenericAamp" -> <<"AAMP", self.doc>>
      [] self.tag = "GenericByml" ->
            <<IF endian = "Big" THEN "BY" ELSE "YB", self.doc>>

\* The archive paths of the model in ascending order, the order in which a
\* SortedDeleteMap is iterated.
PathOrder == <<"i.dat", "n.pack", "x.dat", "y.dat">>

\* SarcWriter::to_binary: the header with the byte order, then every file
\* with its name.
SarcWriter_to_binary(endian, files) ==
    <<"SARC", endian>>
    \o Concat([i \in 1..Len(files) |->
                    <<"{", files[i].name>> \o files[i].data \o <<"}">>], 1)

RECURSIVE ResourceData_to_binary(_, _, _)
RECURSIVE SarcFiles(_, _, _)

\* The files that SarcMap::to_binary collects: for every surviving entry in
\* path order the bytes of its canonical resource; the first entry whose
\* resource is missing or fails to serialize makes the whole an error.
SarcFiles(self, endian, resources) ==
    LET SurvivingPath(q) == q \in PresentKeys(self.map)
        paths == SelectSeq(PathOrder, SurvivingPath)
        each == [i \in 1..Len(paths) |->
                    LET canon == self.map[paths[i]].val
                    IN  IF canon \notin DOMAIN resources
                        THEN Err(<<"Missing resource for SARC: ", canon>>)
                        ELSE ResourceData_to_binary(resources[canon], endian, resources)]
        bad == {i \in 1..Len(each) : each[i].tag = "Err"}
    IN  IF bad /= {} THEN each[CHOOSE i \in bad : \A j \in bad : i <= j]
        ELSE Ok([i \in 1..Len(paths) |-> [name |-> paths[i], data |-> each[i].val]])

\* SarcMap::to_binary
SarcMap_to_binary(self, endian, resources) ==
    LET files == SarcFiles(self, endian, resources)
    IN  IF files.tag = "Err" THEN files
        ELSE Ok(SarcWriter_to_binary(endian, files.val))

\* ResourceData::to_binary
ResourceData_to_binary(self, endian, resources) ==
    CASE self.tag = "Binary" -> BinaryResource_to_binary(self, endian)
      [] self.tag = "Sarc"   -> SarcMap_to_binary(self, endian, resources)
      [] OTHER -> Ok(MergeableResource_into_binary(self, endian))

\* The resource tables: x.dat and y.dat are files, n.pack is an archive
\* whose entry i.dat has the canonical key y.dat.
CanonKeys == {"n.pack", "x.dat", "y.dat"}
TableVals ==
    [k \in CanonKeys |->
        CASE k = "x.dat" ->
                {Agnostic(<<"b1">>), Platform(Some(<<"u1">>), Some(<<"n1">>)),
                 Platform(Some(<<"u1">>), None), GenericByml("d1"), GenericAamp("d1")}
          [] k = "y.dat" ->
                {Agnostic(<<"b1">>), Platform(Some(<<"u1">>), Some(<<"n1">>))}
          [] k = "n.pack" -> {SarcMap(MapOf("i.dat" :> "y.dat"))}]
Tables == Maps(CanonKeys, TableVals)

\* The archives: every entry has the canonical key of its path; y.dat may
\* be a tombstone.
ArchiveMaps ==
    {SarcMap([q \in S |-> Present(q)]) : S \in SUBSET CanonKeys \ {{}}}
    \cup {SarcMap([q \in {"x.dat", "y.dat"} |->
                        IF q = "y.dat" THEN Tombstone ELSE Present(q)])}

\* The diffs that a mod brings for the resource r of the table.
TableDiffs(r) ==
    CASE r.tag = "Binary" ->
            IF r.variant = "Agnostic" THEN {Agnostic(<<"b2">>)}
            ELSE {Platform(Some(<<"u2">>), None), Platform(None, Some(<<"n2">>))}
      [] r.tag = "Sarc" ->
            {SarcMap("i.dat" :> Tombstone), SarcMap(MapOf("i.dat" :> "x.dat"))}
      [] OTHER -> {}

\* One call of SarcMap::to_binary: the endianness, the result and the files
\* the writer holds when it returns.
Emission(endian) ==
    LET files == SarcFiles(arcMap, endian, arcTable)
    IN  [endian |-> endian,
         result |-> SarcMap_to_binary(arcMap, endian, arcTable),
         files |-> IF files.tag = "Ok" THEN files.val ELSE <<>>]

InitArchive ==
    /\ arcMap \in ArchiveMaps
    /\ arcTable \in Tables
    /\ arcFirst = NoRes /\ arcChanged = NoRes /\ arcSecond = NoRes
    /\ LifeIdle /\ ShardIdle /\ ParseIdle /\ ManifestIdle /\ PoolIdle /\ StaticIdle /\ VariantIdle /\ ReadIdle /\ FlagsIdle /\ SerialIdle /\ CliIdle

\* The archive is serialized for a platform.
Serialize(endian) ==
    /\ arcFirst = NoRes
    /\ arcFirst' = Emission(endian)
    /\ UNCHANGED <<arcMap, arcTable, arcChanged, arcSecond>>
    /\ UNCHANGED outsideArchive

\* A mod's diff d is merged onto the resource of the canonical key k.
MergeEntry(k, d) ==
    /\ arcFirst /= NoRes /\ arcChanged = NoRes
    /\ arcTable' = [arcTable EXCEPT ![k] = Merge(arcTable[k], d)]
    /\ arcChanged' = [key |-> k]
    /\ UNCHANGED <<arcMap, arcFirst, arcSecond>>
    /\ UNCHANGED outsideArchive

\* The archive is serialized again, for the same or the other platform.
Reserialize(endian) ==
    /\ arcChanged /= NoRes /\ arcSecond = NoRes
    /\ arcSecond' = Emission(endian)
    /\ UNCHANGED <<arcMap, arcTable, arcFirst, arcChanged>>
    /\ UNCHANGED outsideArchive

NextArchive ==
    \/ \E endian \in Endians : Serialize(endian)
    \/ \E k \in DOMAIN arcTable : \E d \in TableDiffs(arcTable[k]) : MergeEntry(k, d)
    \/ \E endian \in Endians : Reserialize(endian)

SpecArchive == InitArchive /\ [][NextArchive]_vars

-----------------------------------------------------------------------------
(* Manifest (crates/uk-mod/src/lib.rs): the paths of a mod's files, those  *)
(* of the base content and those of the add-on content.  Paths and keys    *)
(* are sequences of one-character strings.                                 *)

\* Number of times a manifest is extended.
MaxExtends == 2

Manifest(content_files, aoc_files) ==
    [content_files |-> content_files, aoc_files |-> aoc_files]

Manifest_extend_mixed(self, other) ==
    Manifest(self.content_files \cup other.content_files \cup other.aoc_files,
             self.aoc_files \cup other.aoc_files)

\* Manifest::extend: BTreeSet::extend of each set with the other's.
Manifest_extend(self, other) ==
    Manifest(self.content_files \cup other.content_files,
             self.aoc_files \cup other.aoc_files)

\* Manifest::clear
Manifest_clear(self) == Manifest({}, {})

\* Manifest::is_empty
Manifest_is_empty(self) == self.content_files = {} /\ self.aoc_files = {}

\* str::replace: every match of from, found from left to right without
\* overlap, becomes to.
RECURSIVE Replace(_, _, _)
Replace(str, from, to) ==
    IF Len(str) < Len(from) THEN str
    ELSE IF StartsWith(str, from)
         THEN to \o Replace(SubSeq(str, Len(from) + 1, Len(str)), from, to)
         ELSE <<Head(str)>> \o Replace(Tail(str), from, to)

\* BTreeSet::iter: the strings of the set in ascending order.
RECURSIVE BTreeIter(_)
BTreeIter(S) ==
    IF S = {} THEN <<>>
    ELSE LET least == CHOOSE x \in S : \A y \in S \ {x} : StrLess(x, y)
         IN  <<least>> \o BTreeIter(S \ {least})

AocPrefix == <<"A", "o", "c", "/", "0", "0", "1", "0", "/">>

\* Manifest::resources: the content files, then the add-on files.
Manifest_resources(self) ==
    LET content == BTreeIter(self.content_files)
        aoc == BTreeIter(self.aoc_files)
    IN  [i \in 1..Len(content) |-> Replace(content[i], <<".", "s">>, <<".">>)]
        \o [i \in 1..Len(aoc) |->
                AocPrefix \o Replace(aoc[i], <<".", "s">>, <<".">>)]

\* The paths of the model: a compressed file, the same file uncompressed,
\* a compressed file in a directory whose name holds ".s", a path of the
\* base content below Aoc/0010/, a compressed archive.
PathYml == <<"a", ".", "s", "b", "y", "m", "l">>
PathPlain == <<"a", ".", "b", "y", "m", "l">>
PathInDir == <<"d", ".", "s", "d", "/", "c", ".", "s", "b", "y", "m", "l">>
PathBelowAoc == <<"A", "o", "c", "/", "0", "0", "1", "0", "/", "e", ".", "s", "b", "y", "m", "l">>
PathSarc == <<"b", ".", "s", "s", "a", "r", "c">>

Manifests ==
    {Manifest(c, a) :
        c \in {{}, {PathYml}, {PathYml, PathPlain}, {PathInDir, PathYml}, {PathBelowAoc}},
        a \in {{}, {PathYml}, {PathSarc, PathYml}}}

InitManifest ==
    /\ maniStart \in Manifests
    /\ mani = maniStart
    /\ maniLog = <<>>
    /\ maniKeys = NoRes
    /\ LifeIdle /\ ShardIdle /\ ParseIdle /\ ArchiveIdle /\ PoolIdle /\ StaticIdle /\ VariantIdle /\ ReadIdle /\ FlagsIdle /\ SerialIdle /\ CliIdle

\* mani.extend(&other)
Extend(other) ==
    /\ Len(maniLog) < MaxExtends
    /\ mani' = Manifest_extend(mani, other)
    /\ maniLog' = Append(maniLog, other)
    /\ maniKeys' = NoRes
    /\ UNCHANGED maniStart
    /\ UNCHANGED outsideManifest

\* mani.clear(): the manifest starts anew.
Clear ==
    /\ ~Manifest_is_empty(mani)
    /\ mani' = Manifest_clear(mani)
    /\ maniStart' = Manifest_clear(mani)
    /\ maniLog' = <<>>
    /\ maniKeys' = NoRes
    /\ UNCHANGED outsideManifest

\* mani.resources().collect()
Resources ==
    /\ maniKeys = NoRes
    /\ maniKeys' = [keys |-> Manifest_resources(mani)]
    /\ UNCHANGED <<maniStart, mani, maniLog>>
    /\ UNCHANGED outsideManifest

NextManifest ==
    \/ \E other \in Manifests : Extend(other)
    \/ Clear
    \/ Resources

SpecManifest == InitManifest /\ [][NextManifest]_vars

-----------------------------------------------------------------------------
(* The fold of the mods' diffs by a pool of workers.  A worker takes the   *)
(* next diff of a resource path that no other worker is merging, reads the *)
(* path's resource, merges and writes the result back; the steps of        *)
(* different paths interleave.                                             *)

\* Number of mods in the load order.
PoolMods == 2

PoolWorkers == {"w1", "w2"}
PoolPaths == {"Dungeon.pack", "gamedata"}

\* The base resources of the two paths.
PoolBases ==
    [q \in PoolPaths |->
        IF q = "Dungeon.pack"
        THEN SarcMap(MapOf("x.dat" :> "x.dat" @@ "y.dat" :> "y.dat"))
        ELSE GameData("bool_data", MapOf(1 :> FlagItem(1, 1) @@ 2 :> FlagItem(2, 2)))]

\* The diffs that a mod may bring for a path.
PoolDiffs ==
    [q \in PoolPaths |->
        IF q = "Dungeon.pack"
        THEN {SarcMap("x.dat" :> Tombstone),
              SarcMap(MapOf("x.dat" :> "Pack/x.dat")),
              SarcMap(MapOf("z.dat" :> "z.dat"))}
        ELSE {GameData("bool_data", MapOf(1 :> FlagItem(1, 9))),
              GameData("bool_data", 1 :> Tombstone),
              GameData("bool_data", MapOf(3 :> FlagItem(3, 3)))}]

\* The paths that a worker is merging.
PoolBusy == {poolWork[w].path : w \in {v \in PoolWorkers : poolWork[v] /= NoRes}}

InitPool ==
    /\ poolMods \in [PoolPaths -> UNION {[1..PoolMods -> PoolDiffs[q]] : q \in PoolPaths}]
    /\ \A q \in PoolPaths : \A i \in 1..PoolMods : poolMods[q][i] \in PoolDiffs[q]
    /\ poolTable = PoolBases
    /\ poolNext = [q \in PoolPaths |-> 0]
    /\ poolWork = [w \in PoolWorkers |-> NoRes]
    /\ poolLog = <<>>
    /\ LifeIdle /\ ShardIdle /\ ParseIdle /\ ArchiveIdle /\ ManifestIdle /\ StaticIdle /\ VariantIdle /\ ReadIdle /\ FlagsIdle /\ SerialIdle /\ CliIdle

\* Worker w takes the next diff of path q and reads the path's resource.
Take(w, q) ==
    /\ poolWork[w] = NoRes
    /\ q \notin PoolBusy
    /\ poolNext[q] < PoolMods
    /\ poolNext' = [poolNext EXCEPT ![q] = @ + 1]
    /\ poolWork' = [poolWork EXCEPT ![w] =
                        [path |-> q, index |-> poolNext[q] + 1,
                         read |-> poolTable[q], diff |-> poolMods[q][poolNext[q] + 1]]]
    /\ UNCHANGED <<poolMods, poolTable, poolLog>>
    /\ UNCHANGED outsidePool

\* Worker w merges the diff onto the resource it read and writes the result.
Finish(w) ==
    /\ poolWork[w] /= NoRes
    /\ poolTable' = [poolTable EXCEPT ![poolWork[w].path] =
                        Merge(poolWork[w].read, poolWork[w].diff)]
    /\ poolLog' = Append(poolLog, [path |-> poolWork[w].path, index |-> poolWork[w].index])
    /\ poolWork' = [poolWork EXCEPT ![w] = NoRes]
    /\ UNCHANGED <<poolMods, poolNext>>
    /\ UNCHANGED outsidePool

NextPool ==
    \/ \E w \in PoolWorkers, q \in PoolPaths : Take(w, q)
    \/ \E w \in PoolWorkers : Finish(w)

SpecPool == InitPool /\ [][NextPool]_vars

-----------------------------------------------------------------------------
(* A Static from its document and back (mstatic.rs).                       *)

\* DeleteVec::into_iter: the live items, one after the other.
VecItems(v) ==
    CHOOSE items \in [1..Cardinality(v.live) -> v.live] :
        \A i, j \in 1..Cardinality(v.live) : i /= j => items[i] /= items[j]

\* DeleteMap::into_iter: the present keys, one after the other.
MapKeys(m) ==
    CHOOSE keys \in [1..Cardinality(PresentKeys(m)) -> PresentKeys(m)] :
        \A i, j \in 1..Cardinality(PresentKeys(m)) : i /= j => keys[i] /= keys[j]

\* The entries that From<Static> for Byml makes of the positions of one map.
MapPosEntries(map, entries) ==
    [i \in 1..Len(MapKeys(entries)) |->
        PosEntry(Some(map), Some(MapKeys(entries)[i]),
                 Some(entries[MapKeys(entries)[i]].val.rotate),
                 Some(entries[MapKeys(entries)[i]].val.translate), None)]

\* The flat_map over start_pos.
RECURSIVE StartPosEntries(_, _)
StartPosEntries(start_pos, i) ==
    IF i > Len(MapKeys(start_pos)) THEN <<>>
    ELSE MapPosEntries(MapKeys(start_pos)[i], start_pos[MapKeys(start_pos)[i]].val)
            \o StartPosEntries(start_pos, i + 1)

\* The same with the pairs in the other order: "StartPos" of general first,
\* the array made of start_pos last.
Byml_from_Static_generated(val) ==
    [key \in {"StartPos"} \cup DOMAIN val.general |->
        IF key = "StartPos" THEN StartPosEntries(val.start_pos, 1)
        ELSE VecItems(val.general[key])]

\* From<Static> for Byml: the pair ("StartPos", array made of start_pos),
\* then the pairs of general, collected into a hash: of two pairs with the
\* same key the later one stays.
Byml_from_Static(val) ==
    [key \in {"StartPos"} \cup DOMAIN val.general |->
        IF key \in DOMAIN val.general THEN VecItems(val.general[key])
        ELSE StartPosEntries(val.start_pos, 1)]

\* Documents that Static::try_from refuses: no StartPos, an entry without
\* Map, a named entry without Rotate.
BadStaticDocs ==
    {[k \in {"LocationMarker"} |-> <<"m1">>],
     [k \in {"StartPos"} |-> <<PosEntry(None, Some("Entrance"), Some("r0"), Some("t0"), None)>>],
     [k \in {"StartPos"} |-> <<PosEntry(Some("CDungeon"), Some("Entrance"), None, Some("t0"), None)>>]}

InitStatic ==
    /\ stDoc \in StaticDocs \cup BadStaticDocs
    /\ stVal = NoRes
    /\ stDiff = NoRes
    /\ stOut = NoRes
    /\ stBack = NoRes
    /\ LifeIdle /\ ShardIdle /\ ParseIdle /\ ArchiveIdle /\ ManifestIdle /\ PoolIdle /\ VariantIdle /\ ReadIdle /\ FlagsIdle /\ SerialIdle /\ CliIdle

\* Static::try_from(&stDoc)
ParseStatic ==
    /\ stVal = NoRes
    /\ stVal' = Static_try_from(stDoc)
    /\ UNCHANGED <<stDoc, stDiff, stOut, stBack>>
    /\ UNCHANGED outsideStatic

\* A mod's document is parsed, diffed against the Static and the diff is
\* merged onto the Static.
MergeStatic(doc) ==
    /\ stVal /= NoRes /\ stVal.ok
    /\ stDiff = NoRes /\ stOut = NoRes
    /\ stDiff' = Static_diff(stVal.val, Static_try_from(doc).val)
    /\ stVal' = [ok |-> TRUE, val |-> Static_merge(stVal.val, stDiff')]
    /\ UNCHANGED <<stDoc, stOut, stBack>>
    /\ UNCHANGED outsideStatic

\* Byml::from(static)
SerializeStatic ==
    /\ stVal /= NoRes /\ stVal.ok
    /\ stOut = NoRes
    /\ stOut' = Byml_from_Static(stVal.val)
    /\ UNCHANGED <<stDoc, stVal, stDiff, stBack>>
    /\ UNCHANGED outsideStatic

\* Static::try_from(&stOut)
ReparseStatic ==
    /\ stOut /= NoRes
    /\ stBack = NoRes
    /\ stBack' = Static_try_from(stOut)
    /\ UNCHANGED <<stDoc, stVal, stDiff, stOut>>
    /\ UNCHANGED outsideStatic

NextStatic ==
    \/ ParseStatic
    \/ \E doc \in StaticDocs : MergeStatic(doc)
    \/ SerializeStatic
    \/ ReparseStatic

SpecStatic == InitStatic /\ [][NextStatic]_vars

-----------------------------------------------------------------------------
(* diff and merge of two MergeableResource values (resource.rs).           *)

\* Values of four of the variants: two schema kinds and the two generic
\* fallbacks.
VariantValues ==
    Statics \cup AttClientLists
        \cup {GenericAamp(d) : d \in {"d1", "d2"}}
        \cup {GenericByml(d) : d \in {"d1", "d2"}}

InitVariant ==
    /\ mrSelf \in VariantValues
    /\ mrOther \in VariantValues
    /\ mrSelf.tag /= mrOther.tag => mrOther \in ForeignDiffs(mrSelf) \cup {GenericByml("d1")}
    /\ mrDiff = NoRes
    /\ mrMerged = NoRes
    /\ LifeIdle /\ ShardIdle /\ ParseIdle /\ ArchiveIdle /\ ManifestIdle /\ PoolIdle /\ ReadIdle /\ FlagsIdle /\ SerialIdle /\ CliIdle
    /\ StaticIdle

\* mrSelf.diff(&mrOther)
DiffResources ==
    /\ mrDiff = NoRes
    /\ mrDiff' = MergeableResource_diff(mrSelf, mrOther)
    /\ UNCHANGED <<mrSelf, mrOther, mrMerged>>
    /\ UNCHANGED outsideVariant

\* mrSelf.merge(&mrOther)
MergeResources ==
    /\ mrMerged = NoRes
    /\ mrMerged' = MergeableResource_merge(mrSelf, mrOther)
    /\ UNCHANGED <<mrSelf, mrOther, mrDiff>>
    /\ UNCHANGED outsideVariant

NextVariant == DiffResources \/ MergeResources

SpecVariant == InitVariant /\ [][NextVariant]_vars

-----------------------------------------------------------------------------
(* Reading an archive of shard files that this program did not write.      *)

BoolData == <<"b", "o", "o", "l", "_", "d", "a", "t", "a">>
RevivalBoolData == <<"r", "e", "v", "i", "v", "a", "l", "_">> \o BoolData
String32Data == <<"s", "t", "r", "i", "n", "g", "3", "2", "_", "d", "a", "t", "a">>
S32Data == <<"s", "3", "2", "_", "d", "a", "t", "a">>

\* What the shard file of a field may hold: nothing recognisable, an empty
\* document, a document with an entry without HashValue, a good shard of
\* the data type the reader derives from the field, a good shard that
\* declares the field's own name or another type.
ShardBodies(field) ==
    {[magic |-> "XX", body |-> <<>>],
     [magic |-> "BY", body |-> <<>>],
     [magic |-> "BY", body |-> <<[key |-> DataTypeOf(field), value |-> Run(1, 1), unkeyed |-> 1]>>],
     [magic |-> "BY", body |-> <<[key |-> DataTypeOf(field), value |-> Run(1, 2)]>>],
     [magic |-> "YB", body |-> <<[key |-> field, value |-> Run(1, 2)]>>],
     [magic |-> "BY", body |-> <<[key |-> S32Data, value |-> Run(1, 2)]>>]}

\* The archives: at most one shard file for each of three fields, held by
\* name as SarcWriter::files holds them.
ForeignSarcs ==
    {[endian |-> "Big",
      files |-> (IF a = {} THEN <<>> ELSE <<[name |-> FileName(BoolData, 0), data |-> CHOOSE x \in a : TRUE]>>)
                \o (IF b = {} THEN <<>> ELSE <<[name |-> FileName(RevivalBoolData, 0), data |-> CHOOSE x \in b : TRUE]>>)
                \o (IF c = {} THEN <<>> ELSE <<[name |-> FileName(String32Data, 0), data |-> CHOOSE x \in c : TRUE]>>)] :
        a \in {{}} \cup {{x} : x \in ShardBodies(BoolData)},
        b \in {{}} \cup {{x} : x \in ShardBodies(RevivalBoolData)},
        c \in {{}} \cup {{x} : x \in ShardBodies(String32Data)}}

InitRead ==
    /\ rdSarc \in ForeignSarcs
    /\ rdOut = NoRes
    /\ LifeIdle /\ ShardIdle /\ ParseIdle /\ ArchiveIdle /\ ManifestIdle /\ PoolIdle /\ FlagsIdle /\ SerialIdle /\ CliIdle
    /\ StaticIdle /\ VariantIdle /\ FlagsIdle /\ SerialIdle /\ CliIdle

\* GameDataPack::from_sarc_writer(&rdSarc)
ReadShards ==
    /\ rdOut = NoRes
    /\ rdOut' = from_sarc_writer(rdSarc)
    /\ UNCHANGED rdSarc
    /\ UNCHANGED outsideRead

NextRead == ReadShards

SpecRead == InitRead /\ [][NextRead]_vars

-----------------------------------------------------------------------------
(* A GameData from its document, entry by entry (gamedata.rs:14-53).       *)
(* A u32 key is held by its two 16-bit halves.                             *)

\* Number of entries of the array of a document.
MaxEntries == 2

Half == 65536
I32Max == 2147483647

U32_abs(v) ==
    IF v >= 0 THEN [hi |-> v \div Half, lo |-> v % Half]
    ELSE [hi |-> ((0 - (v + 1)) \div Half), lo |-> ((0 - (v + 1)) % Half)]

\* `v as u32` for an i32 v: the same 32 bits, so v + 2^32 for a negative v.
U32(v) ==
    IF v >= 0 THEN [hi |-> v \div Half, lo |-> v % Half]
    ELSE LET w == (v + I32Max) + 1
         IN  [hi |-> (Half \div 2) + (w \div Half), lo |-> w % Half]

\* Ord for u32
U32Less(a, b) == a.hi < b.hi \/ (a.hi = b.hi /\ a.lo < b.lo)

\* An entry of the array: a hash with or without HashValue, and DataName.
FlagEntry(hash, name) == [HashValue |-> hash, DataName |-> name]

\* The fold of collect::<Result<SortedDeleteMap<_, _>>>(): the first entry
\* without HashValue ends it with the error, an entry with the key of an
\* earlier one takes its place.
RECURSIVE CollectFlags(_, _, _)
CollectFlags(items, i, m) ==
    IF i > Len(items) THEN Ok(m)
    ELSE IF ~IsSome(items[i].HashValue) THEN Err("MissingBymlKey")
    ELSE CollectFlags(items, i + 1, MapInsert(m, U32(items[i].HashValue[1]), items[i]))

\* TryFrom<&Byml> for GameData, for a document given as its (key, array)
\* pairs in the order of the hash.
GameData_try_from_entries(byml) ==
    IF byml = <<>> THEN Err("MissingBymlKey")
    ELSE LET flags == CollectFlags(byml[1].value, 1, EmptyMap)
         IN  IF flags.tag = "Err" THEN flags
             ELSE Ok(GameData(byml[1].key, flags.val))

\* SortedDeleteMap::values: the present values in ascending key order.
RECURSIVE SortedValues(_, _)
SortedValues(m, keys) ==
    IF keys = {} THEN <<>>
    ELSE LET least == CHOOSE k \in keys : \A j \in keys \ {k} : U32Less(k, j)
         IN  <<m[least].val>> \o SortedValues(m, keys \ {least})

\* From<GameData> for Byml
Byml_from_GameData_entries(val) ==
    <<[key |-> val.data_type, value |-> SortedValues(val.flags, PresentKeys(val.flags))]>>

\* The entries: HashValues at the ends and in the middle of i32, two names,
\* and an entry without HashValue.
HashValues == {0 - I32Max - 1, 0 - 1, 0, 1, I32Max}
FlagEntries ==
    {FlagEntry(Some(h), n) : h \in HashValues, n \in {"FlagA", "FlagB"}}
        \cup {FlagEntry(None, "FlagA")}
FlagArrays == UNION {[1..n -> FlagEntries] : n \in 0..MaxEntries}

\* The documents: none or one array under bool_data, or one followed by a
\* second key.
FlagDocs ==
    {<<>>}
    \cup {<<[key |-> "bool_data", value |-> a]>> : a \in FlagArrays}
    \cup {<<[key |-> "bool_data", value |-> <<FlagEntry(Some(1), "FlagA")>>],
            [key |-> "s32_data", value |-> <<FlagEntry(Some(2), "FlagB")>>]>>}

InitFlags ==
    /\ gdDoc \in FlagDocs
    /\ gdVal = NoRes
    /\ gdOut = NoRes
    /\ LifeIdle /\ ShardIdle /\ ParseIdle /\ ArchiveIdle /\ ManifestIdle /\ PoolIdle /\ SerialIdle /\ CliIdle
    /\ StaticIdle /\ VariantIdle /\ ReadIdle /\ SerialIdle /\ CliIdle

\* GameData::try_from(&gdDoc)
TryFromFlags ==
    /\ gdVal = NoRes
    /\ gdVal' = GameData_try_from_entries(gdDoc)
    /\ UNCHANGED <<gdDoc, gdOut>>
    /\ UNCHANGED outsideFlags

\* Byml::from(gamedata)
IntoByml ==
    /\ gdVal /= NoRes /\ gdVal.tag = "Ok"
    /\ gdOut = NoRes
    /\ gdOut' = [doc |-> Byml_from_GameData_entries(gdVal.val)]
    /\ UNCHANGED <<gdDoc, gdVal>>
    /\ UNCHANGED outsideFlags

NextFlags == TryFromFlags \/ IntoByml

SpecFlags == InitFlags /\ [][NextFlags]_vars

-----------------------------------------------------------------------------
(* ResourceData::to_binary call by call.  SarcMap::to_binary calls         *)
(* to_binary for the resource of every surviving entry, which for an       *)
(* archive calls it for its entries in turn; every call is a frame of the  *)
(* stack.                                                                  *)

\* Number of frames the stack has room for.
StackFrames == 4

\* The paths of an archive in the order SarcMap iterates them.
SerialPaths == <<"a.pack", "b.pack", "x.dat">>

\* The tables: x.dat is a file, a.pack and b.pack are archives whose
\* entries name x.dat, a resource that is missing, each other or themselves.
SerialEntries == {{}, {"x.dat"}, {"a.pack"}, {"b.pack"}, {"b.pack", "x.dat"}, {"a.pack", "x.dat"}}
SerialTables ==
    {("x.dat" :> x) @@ t :
        x \in {Agnostic(<<"b1">>), Platform(Some(<<"u1">>), None)},
        t \in {("a.pack" :> SarcMap([q \in ea |-> Present(q)])) : ea \in SerialEntries}
              \cup {("a.pack" :> SarcMap([q \in ea |-> Present(q)]))
                        @@ ("b.pack" :> SarcMap([q \in eb |-> Present(q)])) :
                        ea \in SerialEntries, eb \in SerialEntries}}

\* The frame of a call of to_binary for the resource of key c: for an
\* archive, the surviving paths not yet visited and the files collected.
Frame(c, r) ==
    LET Surviving(q) == r.tag = "Sarc" /\ q \in PresentKeys(r.map)
    IN  [res |-> c, paths |-> SelectSeq(SerialPaths, Surviving), files |-> <<>>]

\* The stack after the innermost call returned the bytes: its caller adds
\* them to its files under the path it was visiting.
Returned(stack, bytes) ==
    LET n == Len(stack)
        caller == stack[n - 1]
    IN  [i \in 1..(n - 1) |->
            IF i < n - 1 THEN stack[i]
            ELSE [caller EXCEPT
                    !.files = Append(@, [name |-> Head(caller.paths), data |-> bytes]),
                    !.paths = Tail(@)]]

InitSerial ==
    /\ serTable \in SerialTables
    /\ serEndian \in Endians
    /\ serStack = <<>>
    /\ serOut = NoRes
    /\ LifeIdle /\ ShardIdle /\ ParseIdle /\ ArchiveIdle /\ ManifestIdle /\ PoolIdle /\ CliIdle
    /\ StaticIdle /\ VariantIdle /\ ReadIdle /\ FlagsIdle /\ CliIdle

\* serTable["a.pack"].to_binary(serEndian, &serTable) is called.
BeginSerial ==
    /\ serStack = <<>> /\ serOut = NoRes
    /\ serStack' = <<Frame("a.pack", serTable["a.pack"])>>
    /\ UNCHANGED <<serTable, serEndian, serOut>>
    /\ UNCHANGED outsideSerial

\* The innermost call is that of an archive with an entry to visit: the
\* entry's resource is looked up and its to_binary is called; a missing
\* resource makes every call on the stack return the error; without room
\* for the frame the process ends.
CallEntry ==
    /\ serStack /= <<>> /\ serOut = NoRes
    /\ LET top == serStack[Len(serStack)]
           canon == serTable[top.res].map[Head(top.paths)].val
       IN  /\ serTable[top.res].tag = "Sarc" /\ top.paths /= <<>>
           /\ IF canon \notin DOMAIN serTable
              THEN /\ serOut' = Err(<<"Missing resource for SARC: ", canon>>)
                   /\ serStack' = <<>>
              ELSE IF Len(serStack) >= StackFrames
              THEN /\ serOut' = Panic
                   /\ serStack' = serStack
              ELSE /\ serOut' = serOut
                   /\ serStack' = Append(serStack, Frame(canon, serTable[canon]))
    /\ UNCHANGED <<serTable, serEndian>>
    /\ UNCHANGED outsideSerial

\* The innermost call returns: a binary resource its bytes or its error,
\* an archive with no entry left the bytes of the writer.
ReturnEntry ==
    /\ serStack /= <<>> /\ serOut = NoRes
    /\ LET top == serStack[Len(serStack)]
           r == serTable[top.res]
           result == IF r.tag = "Sarc"
                     THEN Ok(SarcWriter_to_binary(serEndian, top.files))
                     ELSE BinaryResource_to_binary(r, serEndian)
       IN  /\ r.tag = "Sarc" => top.paths = <<>>
           /\ IF result.tag = "Err" \/ Len(serStack) = 1
              THEN serOut' = result /\ serStack' = <<>>
              ELSE serOut' = serOut /\ serStack' = Returned(serStack, result.val)
    /\ UNCHANGED <<serTable, serEndian>>
    /\ UNCHANGED outsideSerial

NextSerial == BeginSerial \/ CallEntry \/ ReturnEntry

SpecSerial == InitSerial /\ [][NextSerial]_vars

-----------------------------------------------------------------------------
(* The command-line runner: Runner::run and Runner::deploy step by step.   *)
(* The settings, the mod manager and the deploy manager are collaborators: *)
(* each call on them succeeds or fails, and is written to the log.         *)

\* Most numbers entered for Uninstall.
MaxIds == 2

\* The installed mods as Uninstall lists them, and their manifests.
Installed == <<"m1", "m2">>
ModManifest ==
    ("m1" :> Manifest({PathYml}, {})) @@ ("m2" :> Manifest({PathPlain}, {PathYml}))
    @@ ("new" :> Manifest({PathInDir}, {PathSarc}))

\* str::parse::<usize> of an entered number.
ParseUsize(id) ==
    IF id = "0" THEN Ok(0) ELSE IF id = "1" THEN Ok(1) ELSE IF id = "2" THEN Ok(2)
    ELSE IF id = "3" THEN Ok(3) ELSE Err("Invalid mod number")

Ids == {"0", "1", "2", "3", "x"}
IdLists == UNION {[1..n -> Ids] : n \in 1..MaxIds}

Commands ==
    {[kind |-> k, deploy |-> d, ids |-> <<>>, continue |-> TRUE] :
        k \in {"Mode", "Deploy"}, d \in BOOLEAN}
    \cup {[kind |-> "Install", deploy |-> d, ids |-> <<>>, continue |-> c] :
        d \in BOOLEAN, c \in BOOLEAN}
    \cup {[kind |-> "Uninstall", deploy |-> d, ids |-> l, continue |-> TRUE] :
        d \in BOOLEAN, l \in IdLists}

NoManifest == Manifest({}, {})

\* A call on a collaborator: what was called, on which mod, with which
\* manifest, whether changes were pending then, and whether it succeeded.
Call(op, m, manifest, ok) ==
    [op |-> op, mod |-> m, manifest |-> manifest, pending |-> cliPending, ok |-> ok]

\* The `?` after a call: a failure ends the run with the error; otherwise
\* the run goes on with the next step, or ends when there is none.
Then(ok, op, next) ==
    IF ~ok THEN cliPc' = "done" /\ cliOut' = Err(op)
    ELSE IF next = "done" THEN cliPc' = "done" /\ cliOut' = Ok(<<>>)
    ELSE cliPc' = next /\ cliOut' = cliOut

\* if self.cli.deploy { self.deploy()?; }
AfterApply == IF cliCmd.deploy THEN "deploy" ELSE "done"

InitCli ==
    /\ cliCmd \in Commands
    /\ cliPc = "start"
    /\ cliMod = ""
    /\ cliTodo = cliCmd.ids
    /\ cliManifests = NoManifest
    /\ cliPending \in BOOLEAN
    /\ cliLog = <<>>
    /\ cliOut = NoRes
    /\ LifeIdle /\ ShardIdle /\ ParseIdle /\ ArchiveIdle /\ ManifestIdle /\ PoolIdle
    /\ StaticIdle /\ VariantIdle /\ ReadIdle /\ FlagsIdle /\ SerialIdle

\* match &self.cli.subcommand
Dispatch ==
    /\ cliPc = "start"
    /\ cliPc' = CASE cliCmd.kind = "Mode" -> "settings"
                  [] cliCmd.kind = "Install" -> "check_mod"
                  [] cliCmd.kind = "Uninstall" -> "get"
                  [] cliCmd.kind = "Deploy" -> "deploy"
    /\ UNCHANGED <<cliCmd, cliMod, cliTodo, cliManifests, cliPending, cliLog, cliOut>>
    /\ UNCHANGED outsideCli

\* self.core.settings_mut().apply(|s| s.current_mode = *platform)?
ApplySettings ==
    /\ cliPc = "settings"
    /\ \E ok \in BOOLEAN :
        /\ cliLog' = Append(cliLog, Call("settings", "", NoManifest, ok))
        /\ Then(ok, "settings", "reload")
    /\ UNCHANGED <<cliCmd, cliMod, cliTodo, cliManifests, cliPending>>
    /\ UNCHANGED outsideCli

\* self.core.reload()?
Reload ==
    /\ cliPc = "reload"
    /\ \E ok \in BOOLEAN :
        /\ cliLog' = Append(cliLog, Call("reload", "", NoManifest, ok))
        /\ Then(ok, "reload", AfterApply)
    /\ UNCHANGED <<cliCmd, cliMod, cliTodo, cliManifests, cliPending>>
    /\ UNCHANGED outsideCli

\* self.check_mod(path)?: the mod cannot be opened, or the user declines,
\* or the installation goes on.
CheckMod ==
    /\ cliPc = "check_mod"
    /\ \E opened \in BOOLEAN :
        IF ~opened THEN cliPc' = "done" /\ cliOut' = Err("Could not open mod")
        ELSE IF ~cliCmd.continue THEN cliPc' = "done" /\ cliOut' = Ok(<<>>)
        ELSE cliPc' = "add" /\ cliOut' = cliOut
    /\ UNCHANGED <<cliCmd, cliMod, cliTodo, cliManifests, cliPending, cliLog>>
    /\ UNCHANGED outsideCli

\* let mod_ = mods.add(&path)?
AddMod ==
    /\ cliPc = "add"
    /\ \E ok \in BOOLEAN :
        /\ cliLog' = Append(cliLog, Call("add", "new", NoManifest, ok))
        /\ cliMod' = IF ok THEN "new" ELSE cliMod
        /\ Then(ok, "add", "set_enabled")
    /\ UNCHANGED <<cliCmd, cliTodo, cliManifests, cliPending>>
    /\ UNCHANGED outsideCli

\* mods.set_enabled(mod_.as_hash_id(), true)?
SetEnabled ==
    /\ cliPc = "set_enabled"
    /\ \E ok \in BOOLEAN :
        /\ cliLog' = Append(cliLog, Call("set_enabled", cliMod, NoManifest, ok))
        /\ Then(ok, "set_enabled", "save")
    /\ UNCHANGED <<cliCmd, cliMod, cliTodo, cliManifests, cliPending>>
    /\ UNCHANGED outsideCli

\* mods.save()? of Install, mod_manager.save()? of Uninstall
SaveMods ==
    /\ cliPc = "save"
    /\ \E ok \in BOOLEAN :
        /\ cliLog' = Append(cliLog, Call("save", "", NoManifest, ok))
        /\ Then(ok, "save", IF cliCmd.kind = "Install" THEN "apply" ELSE "extend")
    /\ UNCHANGED <<cliCmd, cliMod, cliTodo, cliManifests, cliPending>>
    /\ UNCHANGED outsideCli

\* mods.get(id.trim().parse::<usize>().context("Invalid mod number")? - 1)
\*     .with_context(|| format!("Mod {} does not exist", id))?
\* For 0 the subtraction overflows: a build with overflow checks stops
\* there, one without looks up usize::MAX and finds no mod.
GetMod ==
    /\ cliPc = "get"
    /\ LET number == ParseUsize(Head(cliTodo))
       IN  IF number.tag = "Err"
           THEN cliPc' = "done" /\ cliOut' = number /\ cliMod' = cliMod
           ELSE IF number.val = 0
           THEN /\ cliPc' = "done" /\ cliMod' = cliMod
                /\ cliOut' \in {Panic, Err("Mod does not exist")}
           ELSE IF number.val - 1 >= Len(Installed)
           THEN cliPc' = "done" /\ cliOut' = Err("Mod does not exist") /\ cliMod' = cliMod
           ELSE cliPc' = "del" /\ cliOut' = cliOut /\ cliMod' = Installed[number.val]
    /\ UNCHANGED <<cliCmd, cliTodo, cliManifests, cliPending, cliLog>>
    /\ UNCHANGED outsideCli

\* mod_manager.del(mod_)?
DelMod ==
    /\ cliPc = "del"
    /\ \E ok \in BOOLEAN :
        /\ cliLog' = Append(cliLog, Call("del", cliMod, NoManifest, ok))
        /\ Then(ok, "del", "save")
    /\ UNCHANGED <<cliCmd, cliMod, cliTodo, cliManifests, cliPending>>
    /\ UNCHANGED outsideCli

\* manifests.extend(mod_.manifest()?.as_ref()), and the next number if any
ExtendManifests ==
    /\ cliPc = "extend"
    /\ \E ok \in BOOLEAN :
        /\ cliManifests' = IF ok THEN Manifest_extend(cliManifests, ModManifest[cliMod])
                           ELSE cliManifests
        /\ cliTodo' = IF ok THEN Tail(cliTodo) ELSE cliTodo
        /\ Then(ok, "manifest", IF Tail(cliTodo) = <<>> THEN "apply" ELSE "get")
    /\ UNCHANGED <<cliCmd, cliMod, cliPending, cliLog>>
    /\ UNCHANGED outsideCli

\* deployer.apply(Some(mod_.manifest()?.as_ref().clone()))? of Install,
\* self.core.deploy_manager().apply(Some(manifests))? of Uninstall
ApplyManifest ==
    /\ cliPc = "apply"
    /\ \E read \in BOOLEAN, ok \in BOOLEAN, p \in BOOLEAN :
        IF cliCmd.kind = "Install" /\ ~read
        THEN /\ cliPc' = "done" /\ cliOut' = Err("manifest")
             /\ UNCHANGED <<cliLog, cliPending>>
        ELSE /\ cliLog' = Append(cliLog,
                    Call("apply", "",
                         IF cliCmd.kind = "Install" THEN ModManifest[cliMod]
                         ELSE cliManifests, ok))
             /\ cliPending' = IF ok THEN p ELSE cliPending
             /\ Then(ok, "apply", AfterApply)
    /\ UNCHANGED <<cliCmd, cliMod, cliTodo, cliManifests>>
    /\ UNCHANGED outsideCli

\* A deploy step that does not ask whether changes are pending.
RunnerDeploy_always ==
    /\ cliPc = "deploy"
    /\ \E ok \in BOOLEAN :
        /\ cliLog' = Append(cliLog, Call("deploy", "", NoManifest, ok))
        /\ cliPending' = IF ok THEN FALSE ELSE cliPending
        /\ Then(ok, "deploy", "done")
    /\ UNCHANGED <<cliCmd, cliMod, cliTodo, cliManifests>>
    /\ UNCHANGED outsideCli

\* Runner::deploy: deployer.deploy()? if deployer.pending(); with nothing
\* pending it says so and returns.
RunnerDeploy ==
    /\ cliPc = "deploy"
    /\ IF cliPending
       THEN \E ok \in BOOLEAN :
                /\ cliLog' = Append(cliLog, Call("deploy", "", NoManifest, ok))
                /\ cliPending' = IF ok THEN FALSE ELSE cliPending
                /\ Then(ok, "deploy", "done")
       ELSE /\ Then(TRUE, "deploy", "done")
            /\ UNCHANGED <<cliLog, cliPending>>
    /\ UNCHANGED <<cliCmd, cliMod, cliTodo, cliManifests>>
    /\ UNCHANGED outsideCli

NextCli ==
    \/ Dispatch \/ ApplySettings \/ Reload
    \/ CheckMod \/ AddMod \/ SetEnabled \/ SaveMods
    \/ GetMod \/ DelMod \/ ExtendManifests
    \/ ApplyManifest \/ RunnerDeploy

SpecCli == InitCli /\ [][NextCli]_vars

-----------------------------------------------------------------------------
(* Properties of diff and merge on one path.                               *)

\* The delete-aware map of a game-data or archive-map resource.
MapIn(r) == IF r.tag = "GameData" THEN r.flags ELSE r.map

\* The first mod's diff has been merged onto the base and nothing else.
FirstMerged == pc = "run" /\ pending.tag = "NoRes" /\ Len(applied) = 1

\* C1: merging diff(a, b) onto a gives b for game data of one data type:
\* same data type, same flag map.
C1_GameDataRoundTrip ==
    (base.tag = "GameData" /\ FirstMerged) => acc = modified

\* b removes flag 2 of a, adds flag 3 and changes flag 1.
C1_Witness ==
    /\ base.tag = "GameData" /\ FirstMerged
    /\ PresentKeys(base.flags) = {1, 2}
    /\ PresentKeys(modified.flags) = {1, 3}
    /\ base.flags[1] /= modified.flags[1]
    /\ DeletedKeys(applied[1].flags) = {2}
    /\ acc = modified

\* C2: merging diff(a, b) onto a gives b for the map Static, in general and
\* in start_pos.
C2_StaticRoundTrip ==
    (base.tag = "Static" /\ FirstMerged) => acc = modified

\* C3: merging diff(a, b) onto a gives b for binary resources of one variant.
C3_BinaryRoundTrip ==
    (base.tag = "Binary" /\ FirstMerged) => acc = modified

\* C4: merging diff(a, b) onto a gives b for attention client lists: the
\* client map has exactly b's entries and att_pos is b's.
C4_AttClientListRoundTrip ==
    (base.tag = "AttClientList" /\ FirstMerged) =>
        /\ PresentKeys(acc.att_clients) = PresentKeys(modified.att_clients)
        /\ \A n \in PresentKeys(modified.att_clients) :
                acc.att_clients[n] = modified.att_clients[n]
        /\ DeletedKeys(acc.att_clients) = {}
        /\ acc.att_pos = modified.att_pos

\* A diff that changes nothing: no present key, no tombstone, no replaced
\* platform slot.
IsEmptyDiff(d) ==
    CASE d.tag = "GameData" -> DOMAIN d.flags = {}
      [] d.tag = "Sarc"     -> DOMAIN d.map = {}
      [] d.tag = "Static"   -> DOMAIN d.general = {} /\ DOMAIN d.start_pos = {}
      [] d.tag = "Binary"   ->
            d.variant = "Platform" => (d.wiiu = None /\ d.nx = None)

IdempotentKinds == {"GameData", "Static", "Sarc", "Binary"}

\* C5: diff(a, a) is an empty diff and merging it onto a gives a, for game
\* data, Static, archive maps and binary resources.
C5_MergeIdempotence ==
    /\ (/\ pc = "run" /\ pending.tag /= "NoRes" /\ applied = <<>>
        /\ base.tag \in IdempotentKinds /\ modified = base)
            => IsEmptyDiff(pending)
    /\ (FirstMerged /\ base.tag \in IdempotentKinds /\ modified = base)
            => acc = base

\* a Platform resource with both slots filled went through diff(a, a) and
\* the merge.
C5_Witness ==
    /\ FirstMerged /\ base.tag = "Binary" /\ modified = base
    /\ base.variant = "Platform" /\ IsSome(base.wiiu) /\ IsSome(base.nx)
    /\ IsEmptyDiff(applied[1])
    /\ acc = base

\* C6: a key of the base that the modified copy lacks is a tombstone of the
\* diff; merging a diff removes its tombstoned keys from an accumulator that
\* has them, leaves them absent in one that lacks them, and leaves every key
\* the diff does not mention as it was (archive maps and game data).
C6_TombstonePropagation ==
    /\ []((pc = "run" /\ pending.tag \in {"GameData", "Sarc"}) =>
            \A k \in PresentKeys(MapIn(base)) \ PresentKeys(MapIn(modified)) :
                k \in DeletedKeys(MapIn(pending)))
    /\ [][(/\ pending.tag \in {"GameData", "Sarc"}
           /\ pending'.tag = "NoRes" /\ pc' = "run") =>
            /\ \A k \in DeletedKeys(MapIn(pending)) :
                    k \notin DOMAIN MapIn(acc')
            /\ \A j \in (DOMAIN MapIn(acc) \cup DOMAIN MapIn(acc'))
                            \ DOMAIN MapIn(pending) :
                    MapGet(MapIn(acc'), j) = MapGet(MapIn(acc), j)]_vars

\* Two mods removed entry x.dat: the first tombstone met an accumulator
\* with x.dat, the second one without it, and y.dat stayed.
C6_Witness ==
    /\ base.tag = "Sarc" /\ pc = "run" /\ pending.tag = "NoRes"
    /\ Len(applied) = 2
    /\ "x.dat" \in PresentKeys(base.map)
    /\ "x.dat" \in DeletedKeys(applied[1].map)
    /\ "x.dat" \in DeletedKeys(applied[2].map)
    /\ "x.dat" \notin DOMAIN acc.map
    /\ "y.dat" \in PresentKeys(acc.map)

\* The files of the archive are held in ascending order of their names.
FilesAscending ==
    step \in {"written", "read"} =>
        \A k \in 1..(Len(sarc.files) - 1) :
            StrLess(sarc.files[k].name, sarc.files[k + 1].name)

\* The shards of out merged onto an empty flag map, in index order.
UnionOf(out) ==
    FoldMerge([i \in 1..Len(out) |-> Ok(out[i])], 1, Len(out),
              GameData(out[1].data_type, <<>>)).flags

\* The files that hold the shards out of field f.
ShardFiles(f, out, endian) ==
    {[name |-> FileName(f, i - 1),
      data |-> Byml_to_binary(Byml_from_GameData(out[i]), endian)] : i \in 1..Len(out)}

\* C7: a pack written with into_sarc_writer and read back with
\* from_sarc_writer is the pack that was written, in the data type and the
\* flag map of each of the 18 fields, whatever the number of flags of a
\* field (0, 4096, 4097, ...).
C7_ShardRoundTrip ==
    step \in {"read", "panicked"} =>
        /\ reread.tag = "Ok"
        /\ \A f \in Fields :
            /\ reread.val[f].data_type = pack[f].data_type
            /\ reread.val[f].flags = pack[f].flags

\* C8: for a field of N flags divide returns ceil(N/4096) shards of at most
\* 4096 flags, all but the last of exactly 4096, with ascending disjoint
\* keys, whose union is the field's flag map, each of the field's data type;
\* the archive holds shard i of field T as "/T_i.bgdata", i = 0 ..
\* ceil(N/4096)-1, and nothing else.
C8_Resharding ==
    step \in {"written", "read", "panicked"} =>
        /\ \A f \in Fields :
            LET n == RunsLen(pack[f].flags)
                out == shards[f]
            IN  /\ Len(out) = CeilDiv(n, ShardCap)
                /\ \A i \in 1..Len(out) :
                    /\ RunsLen(out[i].flags) <= ShardCap
                    /\ i < Len(out) => RunsLen(out[i].flags) = ShardCap
                    /\ out[i].data_type = pack[f].data_type
                    /\ out[i].flags /= <<>>
                    /\ i < Len(out) =>
                        out[i].flags[Len(out[i].flags)].hi < out[i + 1].flags[1].lo
                /\ (IF out = <<>> THEN <<>> ELSE UnionOf(out)) = pack[f].flags
        /\ {sarc.files[k].name : k \in 1..Len(sarc.files)}
            = UNION {{FileName(f, i) : i \in 0..(CeilDiv(RunsLen(pack[f].flags), ShardCap) - 1)} :
                     f \in Fields}
        /\ {sarc.files[k] : k \in 1..Len(sarc.files)}
            = UNION {ShardFiles(f, shards[f], sarc.endian) : f \in Fields}
        /\ Len(sarc.files) = Cardinality({sarc.files[k].name : k \in 1..Len(sarc.files)})

\* The scenario maps: flags A, B, C are 1, 2, 3.
ScenFlags(f) == GameData("bool_data", MapOf([k \in DOMAIN f |-> FlagItem(k, f[k])]))
ScenSetA9 == ScenFlags(1 :> 9)
ScenSetA7 == ScenFlags(1 :> 7)
ScenSetC3 == ScenFlags(3 :> 3)

\* C9: two diffs that mention disjoint keys give the same result merged in
\* either order; base {A:1, B:2} with {A:9} and {C:3} gives {A:9, B:2, C:3}.
C9_DisjointOrderIndependent ==
    /\ (/\ pc = "run" /\ pending.tag = "NoRes" /\ Len(applied) = 2
        /\ base.tag \in {"GameData", "Sarc"}
        /\ DOMAIN MapIn(applied[1]) \cap DOMAIN MapIn(applied[2]) = {})
            => acc = Merge(Merge(base, applied[2]), applied[1])
    /\ (/\ base = ScenFlags(1 :> 1 @@ 2 :> 2)
        /\ applied \in {<<ScenSetA9, ScenSetC3>>, <<ScenSetC3, ScenSetA9>>})
            => acc = ScenFlags(1 :> 9 @@ 2 :> 2 @@ 3 :> 3)

C9_Witness ==
    /\ base = ScenFlags(1 :> 1 @@ 2 :> 2)
    /\ applied = <<ScenSetC3, ScenSetA9>>
    /\ acc = ScenFlags(1 :> 9 @@ 2 :> 2 @@ 3 :> 3)

\* The entry of key k after the fold, by the rule of the last writer: the
\* entry of the last applied diff that mentions k, else the base's.
LastWriter(k) ==
    LET idx == {i \in 1..Len(applied) : k \in DOMAIN MapIn(applied[i])}
        last == CHOOSE i \in idx : \A j \in idx : j <= i
    IN  IF idx = {} THEN MapGet(MapIn(base), k)
        ELSE MapGet(MapIn(applied[last]), k)

\* The same for a platform slot: a diff mentions a slot it fills.
LastSlot(slot) ==
    LET idx == {i \in 1..Len(applied) : IsSome(applied[i][slot])}
        last == CHOOSE i \in idx : \A j \in idx : j <= i
    IN  IF idx = {} THEN base[slot] ELSE applied[last][slot]

\* C10: after folding the diffs in load order every key and every platform
\* slot is as the last diff that mentions it left it, and as in the base
\* when no diff mentions it; base {A:1} with {A:9} then {A:7} gives A:7, in
\* the other order A:9.
C10_LastWriterWins ==
    /\ base.tag \in {"GameData", "Sarc"} =>
            \A k \in (IF base.tag = "GameData" THEN FlagKeys ELSE SarcPaths) :
                MapGet(MapIn(acc), k) = LastWriter(k)
    /\ (base.tag = "Binary" /\ base.variant = "Platform") =>
            /\ acc.wiiu = LastSlot("wiiu")
            /\ acc.nx = LastSlot("nx")
    /\ (base.tag = "Binary" /\ base.variant = "Agnostic") =>
            acc.data = IF applied = <<>> THEN base.data
                       ELSE applied[Len(applied)].data
    /\ (base = ScenFlags(1 :> 1) /\ applied = <<ScenSetA9, ScenSetA7>>)
            => acc = ScenFlags(1 :> 7)
    /\ (base = ScenFlags(1 :> 1) /\ applied = <<ScenSetA7, ScenSetA9>>)
            => acc = ScenFlags(1 :> 9)

C10_Witness ==
    /\ base = ScenFlags(1 :> 1)
    /\ applied = <<ScenSetA9, ScenSetA7>>
    /\ acc = ScenFlags(1 :> 7)

-----------------------------------------------------------------------------
(* Errors and aborts.                                                      *)

\* Two operands that are not of one schema: another variant, another data
\* type of game data, another variant of a binary resource.
Mismatch(a, b) ==
    \/ a.tag /= b.tag
    \/ a.tag = "GameData" /\ a.data_type /= b.data_type
    \/ a.tag = "Binary" /\ a.variant /= b.variant

\* C11: a diff or a merge of two operands that are not of one schema (game
\* data of two data types, two variants of MergeableResource, an Agnostic
\* and a Platform binary resource) aborts the process and returns no
\* resource: nothing is pending after the diff, the accumulator and the
\* applied diffs are what they were before the merge, and no diff of
\* another schema is ever among the merged ones.
C11_SchemaMismatchFatal ==
    /\ []((modified.tag /= "NoRes" /\ Mismatch(base, modified)) =>
            /\ Diff(base, modified) = Panic
            /\ pc = "panicked" /\ pending = NoRes)
    /\ []((pending.tag /= "NoRes" /\ Mismatch(acc, pending)) =>
            /\ Merge(acc, pending) = Panic
            /\ pc = "panicked")
    /\ [](\A i \in 1..Len(applied) : ~Mismatch(base, applied[i]))
    /\ [][(pending'.tag /= "NoRes" /\ Mismatch(acc, pending')) =>
            (acc' = acc /\ applied' = applied)]_vars

\* A Static accumulator met the diff of an attention client list.
C11_Witness ==
    /\ pc = "panicked"
    /\ acc.tag = "Static" /\ pending.tag = "AttClientList"
    /\ Merge(acc, pending) = Panic

\* The bytes that from_binary looks at, once decompressed.
Sniffed == decompress_if(resData).val

NoSchema == resOut /= NoRes /\ decompress_if(resData).tag = "Ok" /\ FirstMatch(resName) = 0

\* C12: for a path that matches no schema and bytes that start with neither
\* the parameter-format magic nor a BY/YB marker (empty input and inputs of
\* exactly 2 or 4 bytes included), from_binary returns an error value: no
\* abort and no resource.
C12_UnrecognizedIsError ==
    (/\ NoSchema
     /\ ~StartsWith(Sniffed, AampMagic)
     /\ ~StartsWith(Sniffed, BymlBig)
     /\ ~StartsWith(Sniffed, BymlLittle)) => resOut.tag = "Err"

\* C13: for a path that matches no schema, bytes that start with "AAMP" give
\* the generic parameter resource of MergeableResource, bytes that start
\* with "BY" a Platform resource with wiiu = the bytes and nx empty, bytes
\* that start with "YB" one with nx = the bytes and wiiu empty.
C13_FallbackClassification ==
    /\ (NoSchema /\ StartsWith(Sniffed, AampMagic)) =>
            resOut = Ok(Typed("GenericAamp", Sniffed))
    /\ (NoSchema /\ StartsWith(Sniffed, BymlBig)) =>
            resOut = Ok(Platform(Some(Sniffed), None))
    /\ (NoSchema /\ StartsWith(Sniffed, BymlLittle)) =>
            resOut = Ok(Platform(None, Some(Sniffed)))

-----------------------------------------------------------------------------
(* Properties of the archive's serialization.                              *)

\* The surviving entries of the archive whose canonical key the table lacks.
MissingEntries ==
    {q \in PresentKeys(arcMap.map) : arcMap.map[q].val \notin DOMAIN arcTable}

\* The bytes that the emission em holds for the entry of path q: None when it holds none.
FileData(em, q) ==
    LET idx == {i \in 1..Len(em.files) : em.files[i].name = q}
    IN  IF idx = {} THEN None ELSE Some(em.files[CHOOSE i \in idx : TRUE].data)

\* The claim of C14 for one emission.
PerEntryFailure(em) ==
    (em /= NoRes /\ MissingEntries /= {}) =>
        /\ em.result.tag = "Err"
        /\ \A q \in PresentKeys(arcMap.map) \ MissingEntries :
                LET r == ResourceData_to_binary(arcTable[arcMap.map[q].val],
                                                em.endian, arcTable)
                IN  r.tag = "Ok" => FileData(em, q) = Some(r.val)

\* C14: when the canonical key of a surviving entry is missing from the
\* resource table, SarcMap::to_binary returns an error value, and the
\* archive's other entries are serialized all the same: the writer holds
\* the bytes of every entry whose resource is there and serializes.
C14_MissingResourcePerEntry == PerEntryFailure(arcFirst) /\ PerEntryFailure(arcSecond)

\* The canonical keys that the bytes of the resource of key c are made of:
\* c and, for an archive, the keys of its surviving entries.
RECURSIVE Refs(_, _)
Refs(c, t) ==
    {c} \cup
    (IF c \in DOMAIN t /\ t[c].tag = "Sarc"
     THEN UNION {Refs(t[c].map[q].val, t) : q \in PresentKeys(t[c].map)}
     ELSE {})

BothEmitted ==
    /\ arcSecond /= NoRes
    /\ arcFirst.result.tag = "Ok" /\ arcSecond.result.tag = "Ok"

\* The entries of the archive whose bytes are held to be the same after the
\* merge step, given the keys that the bytes of the resource of key c
\* depend on.
SameBytes(q, deps) ==
    LET c == arcMap.map[q].val
        r == arcTable[c]
    IN  arcChanged.key \notin deps =>
            /\ arcSecond.endian = arcFirst.endian =>
                    FileData(arcSecond, q) = FileData(arcFirst, q)
            /\ (r.tag = "Binary" /\ r.variant = "Agnostic") =>
                    /\ FileData(arcFirst, q) = Some(r.data)
                    /\ FileData(arcSecond, q) = Some(r.data)

\* C15 as stated: an entry whose own canonical resource the merge step did
\* not change has the same bytes before and after it for one endianness,
\* and the stored bytes under either endianness when it is Agnostic.
C15_Passthrough ==
    BothEmitted =>
        \A q \in PresentKeys(arcMap.map) : SameBytes(q, {arcMap.map[q].val})

\* C15, amended: the same for every entry whose bytes are not made of the
\* changed resource: the entry's own canonical resource and, for an entry
\* that is itself an archive, the resources of its entries.
C15_PassthroughAmended ==
    BothEmitted =>
        \A q \in PresentKeys(arcMap.map) :
            SameBytes(q, Refs(arcMap.map[q].val, arcTable))

\* The archive {x.dat, y.dat}: y.dat's resource was changed, x.dat is an
\* Agnostic blob and was emitted twice with its stored bytes, y.dat's bytes
\* are other ones.
C15_Witness ==
    /\ BothEmitted
    /\ PresentKeys(arcMap.map) = {"x.dat", "y.dat"}
    /\ arcChanged.key = "y.dat"
    /\ arcTable["x.dat"] = Agnostic(<<"b1">>)
    /\ arcFirst.endian /= arcSecond.endian
    /\ FileData(arcSecond, "x.dat") = Some(<<"b1">>)
    /\ FileData(arcFirst, "x.dat") = Some(<<"b1">>)
    /\ FileData(arcSecond, "y.dat") /= FileData(arcFirst, "y.dat")

-----------------------------------------------------------------------------
(* Properties of the manifest.                                             *)

\* The manifests that took part: the start and every one extended with.
Parts == {maniStart} \cup {maniLog[i] : i \in 1..Len(maniLog)}

\* C16: after a.extend(b) each group of a is the union of a's old group and
\* b's group, so the manifest is the groupwise union of all that took
\* part; extending again with one of them changes nothing, the result
\* does not depend on order or grouping of the extends, and the manifest
\* is empty iff all that took part were empty.
C16_ExtendIsUnion ==
    /\ mani.content_files = UNION {m.content_files : m \in Parts}
    /\ mani.aoc_files = UNION {m.aoc_files : m \in Parts}
    /\ \A b \in Parts :
        /\ Manifest_extend(mani, b) = mani
        /\ Manifest_extend(Manifest_extend(maniStart, b), b)
                = Manifest_extend(maniStart, b)
        /\ Manifest_extend(maniStart, b) = Manifest_extend(b, maniStart)
        /\ \A c \in Parts :
                Manifest_extend(Manifest_extend(maniStart, b), c)
                    = Manifest_extend(maniStart, Manifest_extend(b, c))
    /\ Len(maniLog) = 2 =>
            mani = Manifest_extend(Manifest_extend(maniStart, maniLog[2]), maniLog[1])
    /\ Manifest_is_empty(mani) <=> \A m \in Parts : Manifest_is_empty(m)

\* A manifest with a content file was extended with one that has an add-on
\* file of another name: the add-on file is in the add-on group only.
C16_Witness ==
    /\ Len(maniLog) = 1
    /\ maniStart = Manifest({PathYml}, {})
    /\ maniLog[1] = Manifest({}, {PathSarc, PathYml})
    /\ mani = Manifest({PathYml}, {PathSarc, PathYml})

\* The key that the claim gives a path: the ".s" before the extension
\* becomes ".", the rest of the path is as it was.
StripMarker(path) ==
    LET dots == {i \in 1..Len(path) : path[i] = "."}
        last == CHOOSE i \in dots : \A j \in dots : j <= i
    IN  IF dots /= {} /\ last < Len(path) /\ path[last + 1] = "s"
        THEN SubSeq(path, 1, last) \o SubSeq(path, last + 2, Len(path))
        ELSE path

\* C17: resources() yields one key per path, the keys of the content files
\* in the order of the sorted paths, then those of the add-on files; a key
\* is its path with the ".s" before the extension turned into "." and
\* nothing else changed, and the add-on keys, and only they, get the
\* prefix "Aoc/0010/".
C17_ResourceKeys ==
    maniKeys /= NoRes =>
        LET content == BTreeIter(mani.content_files)
            aoc == BTreeIter(mani.aoc_files)
        IN  maniKeys.keys
                = [i \in 1..Len(content) |-> StripMarker(content[i])]
                  \o [i \in 1..Len(aoc) |-> AocPrefix \o StripMarker(aoc[i])]

-----------------------------------------------------------------------------
(* Properties of the fold by a pool of workers.                            *)

\* The fold of the diffs ds onto a, one after the other in load order.
RECURSIVE SequentialFold(_, _, _)
SequentialFold(a, ds, i) ==
    IF i > Len(ds) THEN a ELSE SequentialFold(Merge(a, ds[i]), ds, i + 1)

\* The entry of key k of path q by the rule of the last writer.
PoolLastWriter(q, k) ==
    LET idx == {i \in 1..PoolMods : k \in DOMAIN MapIn(poolMods[q][i])}
        last == CHOOSE i \in idx : \A j \in idx : j <= i
    IN  IF idx = {} THEN MapGet(MapIn(PoolBases[q]), k)
        ELSE MapGet(MapIn(poolMods[q][last]), k)

\* The keys of path q that the base or a diff mentions.
PoolKeys(q) ==
    DOMAIN MapIn(PoolBases[q])
        \cup UNION {DOMAIN MapIn(poolMods[q][i]) : i \in 1..PoolMods}

PoolDone == Len(poolLog) = PoolMods * Cardinality(PoolPaths)

\* C18: whatever the interleaving of the workers' steps, once every diff is
\* merged the table holds, for every path, the result of the sequential
\* fold of the path's diffs in load order, which for every key is the
\* entry of the last diff that mentions it; before that, a path that no
\* worker is merging holds the fold of the diffs taken so far.
C18_PoolEqualsSequential ==
    /\ \A q \in PoolPaths \ PoolBusy :
            poolTable[q] = SequentialFold(PoolBases[q], SubSeq(poolMods[q], 1, poolNext[q]), 1)
    /\ PoolDone =>
            \A q \in PoolPaths :
                /\ poolTable[q] = SequentialFold(PoolBases[q], poolMods[q], 1)
                /\ DOMAIN MapIn(poolTable[q]) \subseteq PoolKeys(q)
                /\ \A k \in PoolKeys(q) :
                        MapGet(MapIn(poolTable[q]), k) = PoolLastWriter(q, k)

\* Both of the first two diffs of the game data were merged before the
\* first diff of the archive, whose first two diffs delete x.dat and bring
\* it back, and the table is the one of the sequential fold.
C18_Witness ==
    /\ PoolDone
    /\ poolLog[1] = [path |-> "gamedata", index |-> 1]
    /\ poolLog[2] = [path |-> "gamedata", index |-> 2]
    /\ poolLog[3] = [path |-> "Dungeon.pack", index |-> 1]
    /\ poolMods["Dungeon.pack"][1] = SarcMap("x.dat" :> Tombstone)
    /\ poolMods["Dungeon.pack"][2] = SarcMap(MapOf("x.dat" :> "Pack/x.dat"))
    /\ poolMods["gamedata"][1] /= poolMods["gamedata"][2]
    /\ poolTable["Dungeon.pack"]
            = SequentialFold(PoolBases["Dungeon.pack"], poolMods["Dungeon.pack"], 1)
    /\ poolTable["Dungeon.pack"] /= PoolBases["Dungeon.pack"]

-----------------------------------------------------------------------------
(* Operands and whole steps.                                               *)

\* r holds everything that the diff d changes and, elsewhere, what a held.
StepComplete(a, d, r) ==
    CASE a.tag \in {"GameData", "Sarc"} ->
            /\ r.tag = a.tag
            /\ \A k \in DOMAIN MapIn(d) : MapGet(MapIn(r), k) = MapGet(MapIn(d), k)
            /\ \A k \in (DOMAIN MapIn(a) \cup DOMAIN MapIn(r)) \ DOMAIN MapIn(d) :
                    MapGet(MapIn(r), k) = MapGet(MapIn(a), k)
      [] a.tag = "Binary" /\ a.variant = "Platform" ->
            /\ r.wiiu = (IF IsSome(d.wiiu) THEN d.wiiu ELSE a.wiiu)
            /\ r.nx = (IF IsSome(d.nx) THEN d.nx ELSE a.nx)
      [] a.tag = "Binary" /\ a.variant = "Agnostic" -> r = Agnostic(d.data)
      [] OTHER -> r = Merge(a, d)

\* C19: diff and merge leave their operands as they were and a merge step
\* is whole.  The base is never changed; a diff step records the mod's copy
\* and the diff of the unchanged base against it and leaves the accumulator
\* alone; a merge step appends the very diff it was given and replaces the
\* accumulator by the complete result of merging that diff; any other
\* step, an aborted merge included, leaves the accumulator as it was. So
\* at every moment, after an abort too, the accumulator is the fold of the
\* diffs applied so far, each of them merged completely.
C19_OperandsKeptStepsWhole ==
    /\ [](acc = SequentialFold(base, applied, 1))
    /\ [](pc = "panicked" => acc.tag = base.tag)
    /\ [][/\ base' = base
          /\ modified' /= modified =>
                /\ acc' = acc /\ applied' = applied
                /\ pending' \in {NoRes, Diff(base, modified')}
          /\ applied' = applied => acc' = acc
          /\ applied' /= applied =>
                /\ applied' = Append(applied, applied'[Len(applied')])
                /\ pending /= NoRes => applied'[Len(applied')] = pending
                /\ modified' = modified
                /\ acc' = Merge(acc, applied'[Len(applied')])
                /\ StepComplete(acc, applied'[Len(applied')], acc')]_vars

\* A fold aborted after a whole step: the first diff filled both slots of a
\* platform resource, the second merge aborted, and the accumulator holds
\* the complete result of the first.
C19_Witness ==
    /\ pc = "panicked"
    /\ base.tag = "Binary" /\ base.variant = "Platform"
    /\ Len(applied) = 1
    /\ IsSome(applied[1].wiiu) /\ IsSome(applied[1].nx)
    /\ applied[1].wiiu /= base.wiiu /\ applied[1].nx /= base.nx
    /\ pending /= NoRes
    /\ acc = Platform(applied[1].wiiu, applied[1].nx)

-----------------------------------------------------------------------------
(* Tombstones.                                                             *)

\* The diffs applied so far that mark a key deleted.
TombstoneDiffs == {i \in 1..Len(applied) : HasTombstone(MapIn(applied[i]))}

\* C20: for a game-data table and an archive map, the parsed base, every
\* mod's parsed copy, and the accumulator after every merge of the fold
\* hold no tombstone, whatever diffs were merged; a tombstone is found
\* only in a diff, pending or applied.
C20_NoTombstoneInMerged ==
    base.tag \in {"GameData", "Sarc"} =>
        /\ ~HasTombstone(MapIn(base))
        /\ ~HasTombstone(MapIn(acc))
        /\ (modified /= NoRes /\ modified.tag = base.tag) => ~HasTombstone(MapIn(modified))
        /\ \A i \in 0..Len(applied) :
                ~HasTombstone(MapIn(SequentialFold(base, SubSeq(applied, 1, i), 1)))
        /\ \A i \in TombstoneDiffs :
                \A k \in DeletedKeys(MapIn(applied[i])) :
                    k \in DOMAIN MapIn(acc) => MapIn(acc)[k].st = "present"

\* Two diffs were merged onto an archive map, each of them marks a key
\* deleted, and the accumulator holds the remaining entries only.
C20_Witness ==
    /\ base.tag = "Sarc"
    /\ Len(applied) = 2
    /\ TombstoneDiffs = {1, 2}
    /\ DeletedKeys(applied[1].map) /= DeletedKeys(applied[2].map)
    /\ acc /= base
    /\ ~HasTombstone(acc.map)
    /\ DOMAIN acc.map /= {}

-----------------------------------------------------------------------------
(* Properties of the order in which shard files are read.                  *)

\* The archive s with its files enumerated from the last to the first.
FilesReversed(s) ==
    [s EXCEPT !.files = [i \in 1..Len(s.files) |-> s.files[Len(s.files) + 1 - i]]]

\* The archive s with the first file enumerated last.
FilesRotated(s) ==
    [s EXCEPT !.files = IF s.files = <<>> THEN <<>> ELSE Tail(s.files) \o <<Head(s.files)>>]

\* The fields whose name the name of the file f starts with.
FieldsOfFile(f) ==
    {field \in Fields : StartsWith(TrimStartMatches(f.name, <<"/">>), field)}

\* C26: the shards that into_sarc_writer wrote are read into the same pack
\* whatever the order in which the archive's files are enumerated (by name,
\* where "_10" comes before "_2", from the last to the first, or with the
\* first one last), and the name of every file written starts with the
\* name of exactly one field, the one it was written for.
C26_ReadOrderIndependent ==
    step \in {"written", "read"} =>
        /\ LET byName == from_sarc_writer(sarc)
           IN  /\ from_sarc_writer(FilesReversed(sarc)) = byName
               /\ from_sarc_writer(FilesRotated(sarc)) = byName
               /\ step = "read" => reread = byName
        /\ \A i \in 1..Len(sarc.files) : Cardinality(FieldsOfFile(sarc.files[i])) = 1
        /\ \A f \in Fields : \A i \in 0..(Len(shards[f]) - 1) :
                FieldsOfFile([name |-> FileName(f, i)]) = {f}

\* A field was written as more than ten shards, so that the file "_10" is
\* held before the file "_2", and the pack was read back.
C26_Witness ==
    /\ step = "read"
    /\ reread.tag = "Ok"
    /\ \E f \in Fields :
            /\ Len(shards[f]) > 10
            /\ \E i, j \in 1..Len(sarc.files) :
                    /\ i < j
                    /\ sarc.files[i].name = FileName(f, 10)
                    /\ sarc.files[j].name = FileName(f, 2)

-----------------------------------------------------------------------------
(* Properties of a Static and its document.                                *)

\* C21: a Static that Static::try_from made of a document is given back by
\* Static::try_from of the document that Byml::from makes of it: the same
\* general arrays, the same start positions with their player_state, and
\* the entries without PosName still in the StartPos array; the document
\* written holds the keys and the items of the document read.
C21_StaticParseRoundTrip ==
    (stBack /= NoRes /\ stDiff = NoRes) =>
        /\ stBack = stVal
        /\ stBack = Static_try_from(stDoc)
        /\ DOMAIN stOut = DOMAIN stDoc
        /\ \A key \in DOMAIN stDoc : VecOf(stOut[key]) = VecOf(stDoc[key])

\* The document has a start position with a player_state and an entry
\* without PosName, and was parsed, written and parsed again.
C21_Witness ==
    /\ stBack /= NoRes /\ stDiff = NoRes
    /\ stBack.ok
    /\ \E i \in 1..Len(stDoc["StartPos"]) : ~IsSome(stDoc["StartPos"][i].PosName)
    /\ "CDungeon" \in PresentKeys(stBack.val.start_pos)
    /\ "Entrance" \in PresentKeys(stBack.val.start_pos["CDungeon"].val)
    /\ stBack.val.start_pos["CDungeon"].val["Entrance"].val.player_state = Some("Wait")

\* The (map, pos_name) pairs present in start_pos.
StartPosPairs(start_pos) ==
    {pr \in PresentKeys(start_pos) \X {"Entrance", "Exit"} :
        pr[2] \in PresentKeys(start_pos[pr[1]].val)}

\* C27: the "StartPos" array of the document that Byml::from makes of a
\* Static holds exactly one entry for every (map, pos_name) pair present in
\* start_pos, with the pair's rotate and translate, and no other entry.
C27_StartPosSerialized ==
    stOut /= NoRes =>
        LET arr == stOut["StartPos"]
            sp == stVal.val.start_pos
        IN  /\ Len(arr) = Cardinality(StartPosPairs(sp))
            /\ \A pr \in StartPosPairs(sp) :
                    \E i \in 1..Len(arr) :
                        /\ arr[i].Map = Some(pr[1])
                        /\ arr[i].PosName = Some(pr[2])
                        /\ arr[i].Rotate = Some(sp[pr[1]].val[pr[2]].val.rotate)
                        /\ arr[i].Translate = Some(sp[pr[1]].val[pr[2]].val.translate)

-----------------------------------------------------------------------------
(* Properties of the variants of MergeableResource.                        *)

\* C22: diff and merge of two values of the same variant, the generic
\* fallbacks GenericAamp and GenericByml included, do not abort and return
\* a value of that variant; only two values of different variants abort.
C22_SameVariantNeverFatal ==
    /\ mrDiff /= NoRes =>
            IF mrSelf.tag = mrOther.tag THEN mrDiff.tag = mrSelf.tag ELSE mrDiff = Panic
    /\ mrMerged /= NoRes =>
            IF mrSelf.tag = mrOther.tag THEN mrMerged.tag = mrSelf.tag ELSE mrMerged = Panic

-----------------------------------------------------------------------------
(* Properties of the dispatch of from_binary.                              *)

\* The schemas whose pattern matches the path, by their place in the chain.
Matching == {i \in 1..Len(SchemaOrder) : path_matches(SchemaOrder[i], resName)}

\* C23: when the pattern of a schema matches the path, from_binary returns
\* a resource of the first schema of the fixed order that matches, or that
\* schema's parse error: whatever the header of the bytes, whatever later
\* schema matches as well, never a sniffed binary resource and no abort;
\* a path that matches AttClient and AttClientList gives AttClient, one
\* that matches Actor and ActorInfo gives Actor. The header decides only
\* when no pattern matches, and the result is a function of path and bytes.
C23_FirstMatchingSchema ==
    /\ (resOut /= NoRes /\ Matching /= {}) =>
            /\ resOut.tag \in {"Ok", "Err"}
            /\ resOut.tag = "Ok" =>
                    /\ resOut.val.tag = "Mergeable"
                    /\ \E i \in Matching :
                            /\ resOut.val.variant = SchemaOrder[i]
                            /\ \A j \in Matching : i <= j
            /\ (resOut.tag = "Ok" /\ resName = {"AttClient", "AttClientList"}) =>
                    resOut.val.variant = "AttClient"
            /\ (resOut.tag = "Ok" /\ resName = {"Actor", "ActorInfo"}) =>
                    resOut.val.variant = "Actor"
    /\ (resOut /= NoRes /\ resOut.tag = "Ok" /\ resOut.val.tag = "Binary") => Matching = {}
    /\ resOut /= NoRes => resOut = from_binary(resName, resData)

\* A path that two schemas match, with bytes whose header the sniffing
\* would take for a big-endian document, gave the first schema's resource.
C23_Witness ==
    /\ resOut /= NoRes
    /\ resName = {"AttClient", "AttClientList"}
    /\ StartsWith(resData, BymlBig) /\ Len(resData) > 2
    /\ resOut = Ok(Typed("AttClient", resData))

-----------------------------------------------------------------------------
(* Properties of the bytes of a binary resource.                           *)

\* The claim of C24 for the emission em of the archive over the table as
\* it is.
StoredBytes(em) ==
    \A q \in PresentKeys(arcMap.map) \ MissingEntries :
        LET r == arcTable[arcMap.map[q].val]
            slot == IF em.endian = "Big" THEN r.wiiu ELSE r.nx
        IN  r.tag = "Binary" =>
                IF r.variant = "Agnostic"
                THEN em.result.tag = "Ok" => FileData(em, q) = Some(r.data)
                ELSE IF IsSome(slot)
                     THEN em.result.tag = "Ok" => FileData(em, q) = Some(slot[1])
                     ELSE /\ em.result.tag = "Err"
                          /\ FileData(em, q) = None
                          /\ (PresentKeys(arcMap.map) = {q}) =>
                                em.result = Err(<<"Resource missing binary data for target platform">>)

\* C24: the bytes written for a binary resource are the stored bytes for
\* Agnostic under either endianness, the wiiu bytes for Big and the nx
\* bytes for Little for Platform; when the slot of the requested
\* endianness is empty the serialization returns an error value, never the
\* other platform's bytes and no abort.
C24_BinaryToBinary ==
    /\ (arcFirst /= NoRes /\ arcChanged = NoRes) => StoredBytes(arcFirst)
    /\ arcSecond /= NoRes => StoredBytes(arcSecond)

\* A resource with wiiu bytes only was asked for Little and gave the
\* error; its neighbour is Agnostic.
C24_Witness ==
    /\ arcFirst /= NoRes /\ arcChanged = NoRes
    /\ PresentKeys(arcMap.map) = {"x.dat", "y.dat"}
    /\ DOMAIN arcTable = {"x.dat", "y.dat"}
    /\ arcTable["x.dat"] = Platform(Some(<<"u1">>), None)
    /\ arcTable["y.dat"] = Agnostic(<<"b1">>)
    /\ arcFirst.endian = "Little"
    /\ arcFirst.result = Err(<<"Resource missing binary data for target platform">>)

-----------------------------------------------------------------------------
(* Properties of reading shard files.                                      *)

\* The field whose prefix the name of the file f starts with.
FieldOfFile(f) ==
    CHOOSE field \in Fields : StartsWith(TrimStartMatches(f.name, <<"/">>), field)

\* The file is malformed, has no data-type key, has an entry without
\* HashValue, or declares another data type than its name stands for.
BadShard(f) ==
    \/ f.data.magic \notin {"BY", "YB"}
    \/ f.data.body = <<>>
    \/ "unkeyed" \in DOMAIN f.data.body[1]
    \/ f.data.body[1].key /= DataTypeOf(FieldOfFile(f))

\* C25: reading an archive of shard files never aborts: the call returns a
\* pack or an error value, and an error value whenever a shard file is
\* malformed, lacks the data-type key or a HashValue, or declares a data
\* type other than the one derived from its file name.
C25_ReadNeverAborts ==
    rdOut /= NoRes =>
        /\ rdOut.tag \in {"Ok", "Err"}
        /\ (\E i \in 1..Len(rdSarc.files) : BadShard(rdSarc.files[i])) => rdOut.tag = "Err"

-----------------------------------------------------------------------------
(* Properties of a GameData and its document.                              *)

\* The places of the array whose entry has the HashValue h.
PlacesOf(h) ==
    {i \in 1..Len(gdDoc[1].value) : gdDoc[1].value[i].HashValue = Some(h)}

\* The HashValues of the array, each with a number that grows with its
\* value read as unsigned: the non-negative ones below the negative ones.
Unsigned(h) == IF h >= 0 THEN <<0, h>> ELSE <<1, h>>
UnsignedLess(a, b) ==
    Unsigned(a)[1] < Unsigned(b)[1]
        \/ (Unsigned(a)[1] = Unsigned(b)[1] /\ Unsigned(a)[2] < Unsigned(b)[2])

\* C29: GameData::try_from returns an error and no GameData exactly when
\* the document is empty or an entry of its array has no HashValue; else
\* the data type is the document's first key and the flags hold, under the
\* HashValue read as an unsigned 32-bit number (v + 2^32 for a negative
\* v: -1 is 0xFFFF_FFFF, -2^31 is 0x8000_0000), the whole entry, the last
\* one of those with the same HashValue. Byml::from then gives one key with
\* the flag values in ascending unsigned key order.
C29_FlagsByUnsignedHash ==
    /\ gdVal /= NoRes =>
            /\ gdVal.tag = "Err" <=>
                    \/ gdDoc = <<>>
                    \/ \E i \in 1..Len(gdDoc[1].value) : ~IsSome(gdDoc[1].value[i].HashValue)
            /\ gdVal.tag = "Ok" =>
                    /\ gdVal.val.data_type = gdDoc[1].key
                    /\ ~HasTombstone(gdVal.val.flags)
                    /\ Cardinality(DOMAIN gdVal.val.flags)
                            = Cardinality({h \in HashValues : PlacesOf(h) /= {}})
                    /\ \A h \in HashValues : PlacesOf(h) /= {} =>
                            LET last == CHOOSE i \in PlacesOf(h) : \A j \in PlacesOf(h) : j <= i
                                k == CASE h = 0 - 1 -> [hi |-> 65535, lo |-> 65535]
                                       [] h = 0 - I32Max - 1 -> [hi |-> 32768, lo |-> 0]
                                       [] h = I32Max -> [hi |-> 32767, lo |-> 65535]
                                       [] OTHER -> [hi |-> 0, lo |-> h]
                            IN  MapGet(gdVal.val.flags, k) = Some(gdDoc[1].value[last])
    /\ gdOut /= NoRes =>
            /\ Len(gdOut.doc) = 1
            /\ gdOut.doc[1].key = gdVal.val.data_type
            /\ Len(gdOut.doc[1].value) = Cardinality(DOMAIN gdVal.val.flags)
            /\ \A i \in 1..Len(gdOut.doc[1].value) :
                    /\ gdOut.doc[1].value[i] \in {gdVal.val.flags[k].val : k \in DOMAIN gdVal.val.flags}
                    /\ \A j \in 1..Len(gdOut.doc[1].value) : i < j =>
                            UnsignedLess(gdOut.doc[1].value[i].HashValue[1],
                                         gdOut.doc[1].value[j].HashValue[1])

\* The array holds -1 before 1: the flags are written with 1 first, and
\* the entry of -1 under 0xFFFF_FFFF.
C29_Witness ==
    /\ gdOut /= NoRes
    /\ gdDoc /= <<>>
    /\ gdDoc[1].value = <<FlagEntry(Some(0 - 1), "FlagA"), FlagEntry(Some(1), "FlagB")>>
    /\ gdOut.doc[1].value = <<FlagEntry(Some(1), "FlagB"), FlagEntry(Some(0 - 1), "FlagA")>>
    /\ MapGet(gdVal.val.flags, [hi |-> 65535, lo |-> 65535]) = Some(FlagEntry(Some(0 - 1), "FlagA"))

-----------------------------------------------------------------------------
(* Properties of the calls of to_binary.                                   *)

\* C28: for every finite resource table, one with an archive whose entry
\* leads back to that archive included, the calls of to_binary come to an
\* end with bytes or an error value: no resource is being serialized
\* inside its own serialization, the stack is never exhausted, and what a
\* finished call returned is what the recursive definition gives.
C28_ToBinaryTerminates ==
    /\ serOut /= Panic
    /\ \A i, j \in 1..Len(serStack) : i /= j => serStack[i].res /= serStack[j].res
    /\ (serOut /= NoRes /\ serOut /= Panic) =>
            /\ serOut.tag \in {"Ok", "Err"}
            /\ serOut = ResourceData_to_binary(serTable["a.pack"], serEndian, serTable)

-----------------------------------------------------------------------------
(* Properties of the command-line runner.                                  *)

\* The positions of the log at which op was called.
CallsOf(op) == {i \in 1..Len(cliLog) : cliLog[i].op = op}

\* The mods the entered numbers name, in the order entered.
ListedMods == [i \in 1..Len(cliCmd.ids) |-> Installed[ParseUsize(cliCmd.ids[i]).val]]

\* The mods removed before position n of the log, in order.
RemovedBefore(n) ==
    LET IsDel(e) == e.op = "del"
        dels == SelectSeq(SubSeq(cliLog, 1, n - 1), IsDel)
    IN  [i \in 1..Len(dels) |-> dels[i].mod]

InstallOrder ==
    cliCmd.kind = "Install" =>
        \A i \in CallsOf("apply") :
            \E a, e, s \in 1..(i - 1) :
                /\ a < e /\ e < s
                /\ cliLog[a].op = "add" /\ cliLog[a].ok
                /\ cliLog[e].op = "set_enabled" /\ cliLog[e].ok /\ cliLog[e].mod = cliLog[a].mod
                /\ cliLog[s].op = "save" /\ cliLog[s].ok
                /\ cliLog[i].manifest = ModManifest[cliLog[a].mod]

ApplyBeforeDeploy ==
    cliCmd.kind \in {"Install", "Uninstall"} =>
        \A d \in CallsOf("deploy") : \E i \in CallsOf("apply") : i < d /\ cliLog[i].ok

UninstallOrder ==
    cliCmd.kind = "Uninstall" =>
        /\ Cardinality(CallsOf("apply")) <= 1
        /\ \A i \in CallsOf("apply") :
            /\ RemovedBefore(i) = ListedMods
            /\ CallsOf("del") \subseteq 1..(i - 1)
            /\ \A d \in CallsOf("del") : cliLog[d].ok /\ cliLog[d + 1].op = "save"
            /\ cliLog[i].manifest.content_files =
                    UNION {ModManifest[ListedMods[k]].content_files : k \in DOMAIN ListedMods}
            /\ cliLog[i].manifest.aoc_files =
                    UNION {ModManifest[ListedMods[k]].aoc_files : k \in DOMAIN ListedMods}

DeployOnlyWhenPending ==
    \A d \in CallsOf("deploy") :
        /\ cliLog[d].pending
        /\ cliCmd.kind \in {"Install", "Uninstall", "Mode"} => cliCmd.deploy

StopsAtFailure ==
    /\ \A i \in 1..(Len(cliLog) - 1) : cliLog[i].ok
    /\ (cliLog /= <<>> /\ ~cliLog[Len(cliLog)].ok) => cliOut.tag = "Err"
    /\ cliOut /= NoRes => cliPc = "done"

\* C30: in the runner, Install adds and enables the mod and saves the mod
\* list before the merge is applied, and apply precedes any deploy;
\* Uninstall calls apply once, after every listed mod was removed, with
\* the union of their manifests; the deployer's deploy step runs only when
\* changes are pending and, for Install, Uninstall and Mode, only with the
\* --deploy flag; and once a step has failed no later step runs.
C30_RunnerOrdering ==
    /\ [](InstallOrder /\ ApplyBeforeDeploy /\ UninstallOrder
            /\ DeployOnlyWhenPending /\ StopsAtFailure)
    /\ [][cliOut /= NoRes => cliLog' = cliLog /\ cliOut' = cliOut]_vars

\* Both mods were removed, last listed first, the union of their manifests
\* was applied, changes were pending and were deployed, and the run ended
\* without an error.
C30_Witness ==
    /\ cliCmd.kind = "Uninstall" /\ cliCmd.deploy /\ cliCmd.ids = <<"2", "1">>
    /\ cliOut = Ok(<<>>)
    /\ Len(cliLog) = 6
    /\ cliLog[5].op = "apply"
    /\ cliLog[5].manifest = Manifest({PathYml, PathPlain}, {PathYml})
    /\ cliLog[6].op = "deploy" /\ cliLog[6].ok

====
